---- MODULE Spec2Model ----
(***************************************************************************)
(* Cookie-rotation rate limiting and the scrape coordinator of the NBO     *)
(* LinkedIn API.                                                           *)
(*                                                                         *)
(*   services/cookie_usage_tracker.py   CookieUsageTracker                 *)
(*   services/linkedin_scraper.py       LinkedInScraper                    *)
(*   lkd_scraper.py                     ScrapingStateManager,              *)
(*                                      EnhancedLinkedInScraper            *)
(*                                                                         *)
(* Dates are day numbers.  The usage file data/cookie_usage.json is the    *)
(* record usage_file; its "last_updated" time stamp is written by every    *)
(* save and read by nothing that decides a result, and is left out.        *)
(***************************************************************************)
EXTENDS Integers, Sequences, FiniteSets, TLC

VARIABLES
    today,        \* date.today() of the host
    usage_file,   \* data/cookie_usage.json: [exists, date, usage]
    disk_ok,      \* whether open(usage_file, 'w') succeeds
    tlog,         \* the tracker client's last call and what it returned
    tincs,        \* number of increment_usage calls the tracker client made
    wk,           \* per server process: the scrape call it is executing
    charged,      \* number of actor runs that came back with records
    overlapped,   \* the cookies on which two scrape calls have been in progress at once
    ledger,       \* the usage data had every increment_usage run undivided
    state,          \* ScrapingStateManager.state of the batch scraper: [date, usage]
    state_file,     \* data/scraping_status.json
    bpc,            \* where the batch scraper is: idle, loop, scraping, terminated
    current_cookie, \* process_profile_batch's current_cookie
    left,           \* URLs of the batch not yet processed
    stopped,        \* cookies answered with HTTP 429 since the state was last reset
    last_scrape,    \* the last scrape_profile call: its cookie, outcome, usage before
    cache,          \* subscribers.linkedin_profile_url, by sanitized email
    lk,             \* the last orchestrate_lookup call: its inputs, calls made, result
    rq,             \* the orchestrate_lookup call in progress, its search cascade running
    cs,             \* find_linkedin_profile_multi_domain: where it is, what it asked
    jd,             \* one query_openai call: its inputs and what it returned
    call_history,   \* rocket_reach_requests.json: per function, the recorded call times
    now,            \* datetime.now(), in seconds
    rr,             \* per process: the lookup_by_email call it is executing
    invoked,        \* per function, the times it was called
    cl,             \* one classify_email call: the email and what it returned
    nx,             \* one extract_name_from_email call: its inputs, where it is, the result
    subs,           \* the subscribers table as the batch processor sees it
    run             \* BatchLinkedInProcessor.run: where it is, its offset, what it attempted

batch_vars == <<state, state_file, bpc, current_cookie, left, stopped, last_scrape>>

server_vars == <<usage_file, disk_ok, tincs, wk, charged, overlapped, ledger>>

lookup_vars == <<cache, lk, rq>>

cascade_vars == <<cs, jd>>

provider_vars == <<call_history, now, rr, invoked>>

leaf_vars == <<cl, nx>>

run_vars == <<subs, run>>

vars == <<today, usage_file, disk_ok, tlog, tincs, wk, charged, overlapped, ledger,
          batch_vars, lookup_vars, cascade_vars, provider_vars, leaf_vars, run_vars>>

(***************************************************************************)
(* Bounds of the model                                                     *)
(***************************************************************************)
\* last day number the model reaches (the first day is 1)
MaxDay == 2
\* the initial usage of a pool is 0 or daily_limit - StartSlack
StartSlack == 2
\* largest count the tracker client passes to check / increment
MaxCount == 3
\* number of increment_usage calls the tracker client makes
MaxTrackerIncs == 2
\* longest URL list handed to scrape_profiles_bulk
MaxUrls == 3
\* number of actor runs that come back with records in one behaviour:
\* of the single server process, and of the two concurrent ones
MaxCharged == 1
MaxChargedConcurrent == 2
MaxChargedCrossPool == 4

\* URLs in one batch of the batch scraper, and how far below its limit a
\* cookie of the batch scraper starts
MaxBatch == 2
BatchSlack == 1

\* lookups in one behaviour of the orchestrator
MaxLookups == 2

(***************************************************************************)
(* CookieUsageTracker                                                      *)
(***************************************************************************)
daily_limit == 500

cookie_names == {"main", "backup", "personal"}

\* a name outside cookie_names, as a caller may pass one
CookieArgs == cookie_names \cup {"invalid"}

Max(a, b) == IF a >= b THEN a ELSE b

create_fresh_data(day) ==
    [date |-> day, usage |-> [c \in cookie_names |-> 0]]

\* the file as it is when it does not exist
NoFile == [exists |-> FALSE, date |-> 0, usage |-> [c \in cookie_names |-> 0]]

\* a load that takes the new date and keeps the old counters
load_usage_data_keeps_usage(f, day) ==
    IF f.exists
    THEN [date |-> day, usage |-> f.usage]
    ELSE create_fresh_data(day)

load_usage_data(f, day) ==
    IF f.exists
    THEN IF f.date # day
         THEN create_fresh_data(day)
         ELSE [date |-> f.date, usage |-> f.usage]
    ELSE create_fresh_data(day)

\* ok: the write succeeds; a failed write leaves the file as it was
save_usage_data(f, data, ok) ==
    IF ok
    THEN [exists |-> TRUE, date |-> data.date, usage |-> data.usage]
    ELSE f

\* a check that writes back the data it loaded
check_rate_limit_saves(f, day, cookie_name, requested_count) ==
    IF cookie_name \notin cookie_names
    THEN [is_allowed |-> FALSE, remaining |-> 0, file |-> f]
    ELSE LET usage_data == load_usage_data(f, day)
             remaining == daily_limit - usage_data.usage[cookie_name]
         IN  [is_allowed |-> ~(requested_count > remaining), remaining |-> remaining,
              file |-> save_usage_data(f, usage_data, TRUE)]

\* a check that lets one call more through than is left
check_rate_limit_off_by_one(f, day, cookie_name, requested_count) ==
    IF cookie_name \notin cookie_names
    THEN [is_allowed |-> FALSE, remaining |-> 0, file |-> f]
    ELSE LET usage_data == load_usage_data(f, day)
             remaining == daily_limit - usage_data.usage[cookie_name]
         IN  [is_allowed |-> ~(requested_count > remaining + 1),
              remaining |-> remaining, file |-> f]

\* the result pair, and the file as the call leaves it (no save on any path)
check_rate_limit(f, day, cookie_name, requested_count) ==
    IF cookie_name \notin cookie_names
    THEN [is_allowed |-> FALSE, remaining |-> 0, file |-> f]
    ELSE LET usage_data == load_usage_data(f, day)
             current_usage == usage_data.usage[cookie_name]
             remaining == daily_limit - current_usage
         IN  IF requested_count > remaining
             THEN [is_allowed |-> FALSE, remaining |-> remaining, file |-> f]
             ELSE [is_allowed |-> TRUE, remaining |-> remaining, file |-> f]

\* an increment that charges one call whatever the count
increment_loaded_by_one(f, day, cookie_name, count) ==
    LET usage_data == load_usage_data(f, day)
        current_usage == usage_data.usage[cookie_name]
    IN  [usage_data EXCEPT !.usage[cookie_name] = current_usage + 1]

\* increment_usage up to its save: the data it is about to write
increment_loaded(f, day, cookie_name, count) ==
    LET usage_data == load_usage_data(f, day)
        current_usage == usage_data.usage[cookie_name]
    IN  [usage_data EXCEPT !.usage[cookie_name] = current_usage + count]

\* increment_usage's return value for the data it wrote
increment_remaining(data, cookie_name) ==
    Max(0, daily_limit - data.usage[cookie_name])

\* increment_usage run without interruption: its return value and the file
\* an increment without the cookie-name test: an unknown name is counted
\* against nothing, and the loaded data is saved
increment_usage_any_name(f, day, cookie_name, count, ok) ==
    IF cookie_name \notin cookie_names
    THEN LET data == load_usage_data(f, day)
         IN  [remaining |-> Max(0, daily_limit - count),
              file |-> save_usage_data(f, data, ok)]
    ELSE LET data == increment_loaded(f, day, cookie_name, count)
         IN  [remaining |-> increment_remaining(data, cookie_name),
              file |-> save_usage_data(f, data, ok)]

increment_usage(f, day, cookie_name, count, ok) ==
    IF cookie_name \notin cookie_names
    THEN [remaining |-> 0, file |-> f]
    ELSE LET data == increment_loaded(f, day, cookie_name, count)
         IN  [remaining |-> increment_remaining(data, cookie_name),
              file |-> save_usage_data(f, data, ok)]

get_other_cookies_remaining(f, day, exclude_cookie) ==
    LET usage_data == load_usage_data(f, day)
    IN  [c \in cookie_names \ {exclude_cookie} |->
            Max(0, daily_limit - usage_data.usage[c])]

(***************************************************************************)
(* LinkedInScraper: URL validation                                         *)
(***************************************************************************)
\* the URLs callers pass: strings as character sequences, and None
UrlText ==
    [u_www |-> [is_str |-> TRUE, chars |-> <<"h", "t", "t", "p", "s", ":", "/", "/", "w", "w", "w", ".", "l", "i", "n", "k", "e", "d", "i", "n", ".", "c", "o", "m", "/", "i", "n", "/", "a">>],
     u_bare |-> [is_str |-> TRUE, chars |-> <<"l", "i", "n", "k", "e", "d", "i", "n", ".", "c", "o", "m", "/", "i", "n", "/", "b">>],
     u_upper |-> [is_str |-> TRUE, chars |-> <<"H", "T", "T", "P", "S", ":", "/", "/", "L", "i", "n", "k", "e", "d", "I", "n", ".", "C", "O", "M", "/", "I", "N", "/", "c">>],
     u_embed |-> [is_str |-> TRUE, chars |-> <<"x", ".", "i", "o", "/", "?", "l", "i", "n", "k", "e", "d", "i", "n", ".", "c", "o", "m", "/", "i", "n", "/", "a">>],
     u_company |-> [is_str |-> TRUE, chars |-> <<"h", "t", "t", "p", "s", ":", "/", "/", "l", "i", "n", "k", "e", "d", "i", "n", ".", "c", "o", "m", "/", "c", "o", "m", "p", "a", "n", "y", "/", "x">>],
     u_empty |-> [is_str |-> TRUE, chars |-> <<>>],
     u_none |-> [is_str |-> FALSE, chars |-> <<>>]]

UrlNames == DOMAIN UrlText

ToLower ==
    ("A" :> "a") @@ ("B" :> "b") @@ ("C" :> "c") @@ ("D" :> "d") @@ ("E" :> "e") @@
    ("F" :> "f") @@ ("G" :> "g") @@ ("H" :> "h") @@ ("I" :> "i") @@ ("J" :> "j") @@
    ("K" :> "k") @@ ("L" :> "l") @@ ("M" :> "m") @@ ("N" :> "n") @@ ("O" :> "o") @@
    ("P" :> "p") @@ ("Q" :> "q") @@ ("R" :> "r") @@ ("S" :> "s") @@ ("T" :> "t") @@
    ("U" :> "u") @@ ("V" :> "v") @@ ("W" :> "w") @@ ("X" :> "x") @@ ("Y" :> "y") @@
    ("Z" :> "z")

\* str.lower()
lower(s) == [i \in 1..Len(s) |-> IF s[i] \in DOMAIN ToLower THEN ToLower[s[i]] ELSE s[i]]

\* pattern in s
Contains(pattern, s) ==
    \E i \in 1..(Len(s) - Len(pattern) + 1) :
        SubSeq(s, i, i + Len(pattern) - 1) = pattern

valid_patterns ==
    {<<"l", "i", "n", "k", "e", "d", "i", "n", ".", "c", "o", "m", "/", "i", "n", "/">>,
     <<"w", "w", "w", ".", "l", "i", "n", "k", "e", "d", "i", "n", ".", "c", "o", "m", "/", "i", "n", "/">>}

\* a validation that compares without lower-casing the URL
is_valid_linkedin_url_case_sensitive(url) ==
    IF ~url.is_str \/ url.chars = <<>>
    THEN FALSE
    ELSE \E pattern \in valid_patterns : Contains(pattern, url.chars)

is_valid_linkedin_url(url) ==
    IF ~url.is_str \/ url.chars = <<>>
    THEN FALSE
    ELSE \E pattern \in valid_patterns : Contains(pattern, lower(url.chars))

UrlValid == [u \in UrlNames |-> is_valid_linkedin_url(UrlText[u])]

\* a partition that lets every URL through as valid
valid_urls_keeps_all(urls) == urls

valid_urls(urls) == SelectSeq(urls, LAMBDA u : UrlValid[u])

invalid_urls(urls) == SelectSeq(urls, LAMBDA u : ~UrlValid[u])

(***************************************************************************)
(* LinkedInScraper: scrape_profile and scrape_profiles_bulk, executed by   *)
(* server processes that share data/cookie_usage.json.  A step of a        *)
(* process reads or writes the file at most once.                          *)
(***************************************************************************)
Workers == {"w1", "w2", "w3"}

\* the limit and usage the rate-limit error reports
reported_limit == 70

NoOthers == [c \in {} |-> 0]

NoDetail == [present |-> FALSE, current_usage |-> 0, limit |-> 0,
             other_cookies_remaining |-> NoOthers]

NoResult == [success |-> FALSE, error |-> "none", is_allowed |-> FALSE,
             remaining |-> 0, valid_count |-> 0, invalid_count |-> 0,
             detail |-> NoDetail]

\* which cookie files are on disk: the one named after the cookie, and the
\* unnamed cookies.json of the single-limiter scraper
AllCookieFiles == [named |-> TRUE, legacy |-> TRUE]

CookieFiles ==
    {AllCookieFiles, [named |-> FALSE, legacy |-> TRUE], [named |-> FALSE, legacy |-> FALSE]}

\* _load_cookies(cookie_name): whether it returns a non-empty list; it opens
\* data/<cookie_name>.json and nothing else
load_cookies(files) == files.named

Idle == [pc |-> "idle", kind |-> "none", cookie |-> "main", urls |-> <<>>,
         remaining |-> 0, cookie_loads |-> 0, runs |-> 0, incs |-> 0,
         run_status |-> "none", items |-> 0, run_urls |-> <<>>,
         cookie_files |-> AllCookieFiles,
         data |-> create_fresh_data(0), result |-> NoResult]

\* a call that has passed the rate-limit check and has not yet returned
InFlight == {"dispatch", "inc_load", "inc_save"}

\* what client.actor(...).call(...) comes back with: the run's status, no run
\* at all, or an exception
RunOutcomes == {"SUCCEEDED", "FAILED", "TIMED-OUT", "none", "raise"}

\* the result dictionaries; a bulk result counts its URLs, a single one does not
Result(w, success, error, is_allowed, remaining, detail) ==
    [success |-> success, error |-> error, is_allowed |-> is_allowed,
     remaining |-> remaining,
     valid_count |-> IF wk[w].kind = "bulk" THEN Len(valid_urls(wk[w].urls)) ELSE 0,
     invalid_count |-> IF wk[w].kind = "bulk" THEN Len(invalid_urls(wk[w].urls)) ELSE 0,
     detail |-> detail]

\* the call's first step: validation, then the rate-limit check
Begin(w, kind, urls, c) ==
    /\ wk[w].pc = "idle"
    /\ LET valid == valid_urls(urls)
           call == [Idle EXCEPT !.kind = kind, !.cookie = c, !.urls = urls]
       IN  IF valid = <<>>
           THEN /\ wk' = [wk EXCEPT ![w] =
                     [call EXCEPT
                        !.pc = "done",
                        !.result = [NoResult EXCEPT
                            !.error = IF kind = "bulk" THEN "no_valid_urls" ELSE "invalid_url",
                            !.invalid_count = IF kind = "bulk" THEN Len(urls) ELSE 0]]]
                /\ UNCHANGED <<usage_file, overlapped, leaf_vars, run_vars>>
           ELSE LET r == check_rate_limit(usage_file, today, c, Len(valid))
                IN  /\ usage_file' = r.file
                    /\ wk' = [wk EXCEPT ![w] =
                         [call EXCEPT
                            !.pc = IF r.is_allowed THEN "dispatch" ELSE "others",
                            !.remaining = r.remaining]]
                    /\ overlapped' =
                         IF \E v \in Workers \ {w} :
                               wk[v].pc \notin {"idle", "done"} /\ wk[v].cookie = c
                         THEN overlapped \cup {c} ELSE overlapped
    /\ UNCHANGED <<today, disk_ok, tlog, tincs, charged, ledger, batch_vars, lookup_vars, cascade_vars, provider_vars, leaf_vars, run_vars>>

ScrapeProfile(w, url, c) == Begin(w, "single", <<url>>, c)

ScrapeProfilesBulk(w, urls, c) == Begin(w, "bulk", urls, c)

\* a rate-limit error that reports remaining 0, as the validation error does
RateLimitError_reports_zero(w) ==
    /\ wk[w].pc = "others"
    /\ LET others == get_other_cookies_remaining(usage_file, today, wk[w].cookie)
           detail == [present |-> TRUE, current_usage |-> reported_limit,
                      limit |-> reported_limit, other_cookies_remaining |-> others]
       IN  wk' = [wk EXCEPT ![w].pc = "done",
                            ![w].result = Result(w, FALSE, "rate_limit", FALSE, 0, detail)]
    /\ UNCHANGED <<today, usage_file, disk_ok, tlog, tincs, charged, overlapped, ledger, batch_vars, lookup_vars, cascade_vars, provider_vars, leaf_vars, run_vars>>

\* the check refused: read the other cookies' remaining counts and return
RateLimitError(w) ==
    /\ wk[w].pc = "others"
    /\ LET others == get_other_cookies_remaining(usage_file, today, wk[w].cookie)
           detail == [present |-> TRUE,
                      current_usage |-> IF wk[w].kind = "bulk"
                                        THEN reported_limit - wk[w].remaining
                                        ELSE reported_limit,
                      limit |-> reported_limit,
                      other_cookies_remaining |-> others]
       IN  wk' = [wk EXCEPT ![w].pc = "done",
                            ![w].result = Result(w, FALSE, "rate_limit", FALSE,
                                                 wk[w].remaining, detail)]
    /\ UNCHANGED <<today, usage_file, disk_ok, tlog, tincs, charged, overlapped, ledger, batch_vars, lookup_vars, cascade_vars, provider_vars, leaf_vars, run_vars>>

\* a dispatch that charges the pool for every run, whatever its status
Dispatch_charges_attempts(w, files, status, items, budget) ==
    LET loaded == load_cookies(files) IN
    /\ wk[w].pc = "dispatch"
    /\ ~loaded => (status = "none" /\ items = 0)
    /\ status # "SUCCEEDED" => items = 0
    /\ items > 0 => charged < budget
    /\ charged' = IF items > 0 THEN charged + 1 ELSE charged
    /\ LET me == [wk[w] EXCEPT !.cookie_loads = 1, !.cookie_files = files]
           fail(error) == Result(w, FALSE, error, TRUE, wk[w].remaining, NoDetail)
       IN  IF ~loaded
           THEN wk' = [wk EXCEPT ![w] = [me EXCEPT !.pc = "done", !.result = fail("cookies")]]
           ELSE LET ran == [me EXCEPT !.runs = 1, !.run_status = status, !.items = items,
                                      !.run_urls = valid_urls(wk[w].urls)]
                IN  IF status = "raise"
                    THEN wk' = [wk EXCEPT ![w] = [ran EXCEPT !.pc = "done", !.result = fail("exception")]]
                    ELSE wk' = [wk EXCEPT ![w] = [ran EXCEPT !.pc = "inc_load"]]
    /\ UNCHANGED <<today, usage_file, disk_ok, tlog, tincs, overlapped, ledger, batch_vars, lookup_vars, cascade_vars, provider_vars, leaf_vars, run_vars>>

\* the check allowed: load the cookies, run the actor, fetch its dataset
Dispatch(w, files, status, items, budget) ==
    LET loaded == load_cookies(files) IN
    /\ wk[w].pc = "dispatch"
    /\ ~loaded => (status = "none" /\ items = 0)
    /\ status # "SUCCEEDED" => items = 0
    /\ items > 0 => charged < budget
    /\ charged' = IF items > 0 THEN charged + 1 ELSE charged
    /\ LET me == [wk[w] EXCEPT !.cookie_loads = 1, !.cookie_files = files]
           fail(error) == Result(w, FALSE, error, TRUE, wk[w].remaining, NoDetail)
       IN  IF ~loaded
           THEN wk' = [wk EXCEPT ![w] = [me EXCEPT !.pc = "done", !.result = fail("cookies")]]
           ELSE LET ran == [me EXCEPT !.runs = 1, !.run_status = status, !.items = items,
                                      !.run_urls = valid_urls(wk[w].urls)]
                IN  IF status = "raise"
                    THEN wk' = [wk EXCEPT ![w] = [ran EXCEPT !.pc = "done", !.result = fail("exception")]]
                    ELSE IF status # "SUCCEEDED"
                    THEN wk' = [wk EXCEPT ![w] = [ran EXCEPT !.pc = "done", !.result = fail("run_failed")]]
                    ELSE IF items = 0
                    THEN wk' = [wk EXCEPT ![w] = [ran EXCEPT !.pc = "done", !.result = fail("no_data")]]
                    ELSE wk' = [wk EXCEPT ![w] = [ran EXCEPT !.pc = "inc_load"]]
    /\ UNCHANGED <<today, usage_file, disk_ok, tlog, tincs, overlapped, ledger, batch_vars, lookup_vars, cascade_vars, provider_vars, leaf_vars, run_vars>>

\* increment_usage, first half: load the file and add the count
IncLoad(w) ==
    /\ wk[w].pc = "inc_load"
    /\ wk' = [wk EXCEPT
                ![w].pc = "inc_save",
                ![w].incs = wk[w].incs + 1,
                ![w].data = increment_loaded(usage_file, today, wk[w].cookie,
                                             Len(valid_urls(wk[w].urls)))]
    /\ ledger' = increment_loaded(ledger, today, wk[w].cookie,
                                  Len(valid_urls(wk[w].urls)))
                     @@ [exists |-> TRUE]
    /\ UNCHANGED <<today, usage_file, disk_ok, tlog, tincs, charged, overlapped, batch_vars, lookup_vars, cascade_vars, provider_vars, leaf_vars, run_vars>>

\* increment_usage, second half: write the file; then the success result
IncSave(w) ==
    /\ wk[w].pc = "inc_save"
    /\ usage_file' = save_usage_data(usage_file, wk[w].data, disk_ok)
    /\ wk' = [wk EXCEPT
                ![w].pc = "done",
                ![w].result = Result(w, TRUE, "none", TRUE,
                                     increment_remaining(wk[w].data, wk[w].cookie),
                                     NoDetail)]
    /\ UNCHANGED <<today, disk_ok, tlog, tincs, charged, overlapped, ledger, batch_vars, lookup_vars, cascade_vars, provider_vars, leaf_vars, run_vars>>

\* the result has been handed to the caller
Return(w) ==
    /\ wk[w].pc = "done"
    /\ wk' = [wk EXCEPT ![w] = Idle]
    /\ UNCHANGED <<today, usage_file, disk_ok, tlog, tincs, charged, overlapped, ledger, batch_vars, lookup_vars, cascade_vars, provider_vars, leaf_vars, run_vars>>

(***************************************************************************)
(* Initial states of the usage file                                        *)
(***************************************************************************)
(***************************************************************************)
(* The batch scraper's state manager (lkd_scraper.py)                      *)
(***************************************************************************)
\* the order in which get_available_cookie tries the cookies
cookie_order == <<"main", "backup", "personal">>

\* state["limits"] of a fresh state
limits == [main |-> 100, backup |-> 70, personal |-> 10]

create_fresh_state(day) == [date |-> day, usage |-> [c \in cookie_names |-> 0]]

\* load_state: the file's state if it is of today, a fresh one otherwise
load_state(f, day) == IF f.date # day THEN create_fresh_state(day) ELSE f

\* reset_if_new_day, as the state it leaves
reset_if_new_day(st, day) == IF st.date # day THEN create_fresh_state(day) ELSE st

\* a check that admits one request more than remains
state_check_rate_limit_one_more(st, cookie, count) ==
    IF cookie \notin DOMAIN st.usage
    THEN [is_allowed |-> FALSE, remaining |-> 0]
    ELSE LET remaining == limits[cookie] - st.usage[cookie]
         IN  [is_allowed |-> count <= remaining + 1, remaining |-> remaining]

\* ScrapingStateManager.check_rate_limit
state_check_rate_limit(st, cookie, count) ==
    IF cookie \notin DOMAIN st.usage
    THEN [is_allowed |-> FALSE, remaining |-> 0]
    ELSE LET remaining == limits[cookie] - st.usage[cookie]
         IN  [is_allowed |-> count <= remaining, remaining |-> remaining]

state_increment_usage(st, cookie, count) ==
    IF cookie \notin DOMAIN st.usage
    THEN st
    ELSE [st EXCEPT !.usage[cookie] = @ + count]

\* the first cookie with usage below its limit, "none" when there is none
get_available_cookie(st) ==
    LET open == {i \in 1..Len(cookie_order) :
                    st.usage[cookie_order[i]] < limits[cookie_order[i]]}
    IN  IF open = {}
        THEN "none"
        ELSE cookie_order[CHOOSE i \in open : \A j \in open : i <= j]

\* a 429 handler that leaves the usage as the local bookkeeping has it
mark_exhausted_keeps_usage(st, cookie) == st

\* the 429 handler's assignment: usage[cookie] = limits[cookie]
mark_exhausted(st, cookie) == [st EXCEPT !.usage[cookie] = limits[cookie]]

NoScrape == [outcome |-> "none", cookie |-> "none", before |-> 0]

ScrapeOutcomes == {"success", "verify_failed", "rate_limit", "profile_not_found", "error"}

StartUsage == {0, daily_limit - StartSlack}

\* no file yet, or a file this code wrote today or on the day before
FileInit ==
    {NoFile} \cup
    [exists : {TRUE}, date : {0, 1}, usage : [cookie_names -> StartUsage]]

(***************************************************************************)
(* A client of the tracker (test_cookie_functionality.py calls the tracker *)
(* this way): one call after another, any cookie name, any count.          *)
(***************************************************************************)
TLogInit == [op |-> "none", cookie |-> "main", count |-> 0, day |-> 0,
             is_allowed |-> FALSE, remaining |-> 0,
             before |-> NoFile]

(***************************************************************************)
(* The lookup orchestrator (services/orchestrator.py)                      *)
(***************************************************************************)
\* Python's None
null == "null"

\* None where a URL is a list of characters
no_url == <<>>

\* the email arguments of a lookup: strings, None, and a value that is not a
\* string
EmailText ==
    [e_ok |-> [kind |-> "str", chars |-> <<"a", "@", "b", ".", "c", "o">>],
     e_upper |-> [kind |-> "str", chars |-> <<" ", "A", "@", "b", ".", "c", "o">>],
     e_no_at |-> [kind |-> "str", chars |-> <<"a", "b", ".", "c", "o">>],
     e_no_dot |-> [kind |-> "str", chars |-> <<"a", "@", "b", "c">>],
     e_two_at |-> [kind |-> "str", chars |-> <<"a", "@", "b", ".", "c", "o", "@", "d">>],
     e_none |-> [kind |-> "none", chars |-> <<>>],
     e_int |-> [kind |-> "other", chars |-> <<>>]]

EmailNames == DOMAIN EmailText

\* str.strip()
RECURSIVE strip(_)
strip(s) ==
    IF s = <<>> THEN s
    ELSE IF Head(s) = " " THEN strip(Tail(s))
    ELSE IF s[Len(s)] = " " THEN strip(SubSeq(s, 1, Len(s) - 1))
    ELSE s

\* str.split(sep): the pieces between the separators, in order
RECURSIVE split(_, _)
split(s, sep) ==
    IF \A i \in 1..Len(s) : s[i] # sep THEN <<s>>
    ELSE LET i == CHOOSE k \in 1..Len(s) :
                      s[k] = sep /\ \A j \in 1..(k - 1) : s[j] # sep
         IN  <<SubSeq(s, 1, i - 1)>> \o split(SubSeq(s, i + 1, Len(s)), sep)

invalid_values ==
    {<<>>,
     <<"n", "o", "n", "e">>,
     <<"n", "u", "l", "l">>,
     <<"n", "/", "a">>,
     <<"#", "n", "/", "a">>,
     <<"u", "n", "d", "e", "f", "i", "n", "e", "d">>,
     <<"n", "i", "l">>,
     <<"n", "a">>,
     <<"-">>,
     <<"u", "n", "k", "n", "o", "w", "n">>,
     <<"#", "n", "u", "l", "l">>}

\* ParamValidator.is_empty_or_invalid
is_empty_or_invalid(value) ==
    IF value.kind = "none" THEN TRUE
    ELSE IF value.kind = "str" THEN lower(strip(value.chars)) \in invalid_values
    ELSE FALSE

\* email.strip().lower()
sanitized_email(chars) == lower(strip(chars))

\* the email a subscriber row is looked up by
EmailKey(e) == sanitized_email(EmailText[e].chars)

\* ParamValidator.validate_email: "True", "False", or "raise" when the value
\* that passed is_empty_or_invalid has no strip()
validate_email(email) ==
    IF is_empty_or_invalid(email) THEN "False"
    ELSE IF email.kind # "str" THEN "raise"
    ELSE LET e == sanitized_email(email.chars)
         IN  IF (\E i \in 1..Len(e) : e[i] = "@")
                /\ (\E i \in 1..Len(split(e, "@")[2]) : split(e, "@")[2][i] = ".")
             THEN "True" ELSE "False"

Letters == DOMAIN ToLower \cup {ToLower[c] : c \in DOMAIN ToLower}

Digits == {"0", "1", "2", "3", "4", "5", "6", "7", "8", "9"}

\* EmailValidator.is_valid: the pattern
\* ^[a-zA-Z0-9._%+-]+@[a-zA-Z0-9.-]+\.[a-zA-Z]{2,}$
email_is_valid(s) ==
    \E i, j \in 1..Len(s) :
        /\ 1 < i /\ i + 1 < j /\ j + 2 <= Len(s)
        /\ s[i] = "@" /\ s[j] = "."
        /\ \A k \in 1..(i - 1) : s[k] \in Letters \cup Digits \cup {".", "_", "%", "+", "-"}
        /\ \A k \in (i + 1)..(j - 1) : s[k] \in Letters \cup Digits \cup {".", "-"}
        /\ \A k \in (j + 1)..Len(s) : s[k] \in Letters

\* validate_email of each email argument
EmailValid == [e \in EmailNames |-> validate_email(EmailText[e])]

\* what the collaborators of one lookup do: the email argument, the database,
\* the classifier's answer, the search cascade, the alternate provider
\* (RocketReach) and the database update. A collaborator that the lookup
\* cannot reach has one outcome listed, and so has the provider for an email
\* its own validation refuses.
LookupEnvs ==
    {env \in [email : EmailNames,
              db : {"ok", "down", "down_after_exists"},
              domain_type : {"work", "personal", "unknown"},
              cascade : {"url", "none", "raise"},
              provider : {"url", "none", "raise"},
              update_ok : BOOLEAN] :
        /\ EmailValid[env.email] # "True" =>
               env.db = "ok" /\ env.domain_type = "unknown" /\ env.provider = "none"
        /\ (/\ EmailValid[env.email] = "True" /\ ~email_is_valid(EmailKey(env.email))
            /\ ~(env.domain_type = "work" /\ env.cascade = "url")) =>
               env.provider = "raise"
        /\ env.domain_type # "work" => env.cascade = "none"
        /\ (env.domain_type = "work" /\ env.cascade = "url") => env.provider = "none"
        /\ ~env.update_ok =>
               /\ env.db # "down"
               /\ env.provider = "url" \/ (env.domain_type = "work" /\ env.cascade = "url")}

\* a success flag that is set whatever was found
is_success_always(linkedin_url) == TRUE

\* "success": linkedin_url is not None
is_success(linkedin_url) == linkedin_url # null

\* a route that sends everything but personal emails to the search cascade
uses_cascade_unless_personal(domain_type) == domain_type # "personal"

\* if domain_type == "work": the search cascade first
uses_cascade(domain_type) == domain_type = "work"

\* the response prepared after the search: success and method_used from the URL
lookup_result(linkedin_url, method_used, domain_type, database_found, database_updated, error) ==
    [linkedin_url |-> linkedin_url, success |-> is_success(linkedin_url),
     method_used |-> IF method_used = null THEN "none" ELSE method_used,
     domain_type |-> domain_type, database_found |-> database_found,
     database_updated |-> database_updated, error |-> error]

\* an early result that leaves the error field empty
rejected_result_unpopulated(error) ==
    [linkedin_url |-> null, success |-> FALSE, method_used |-> "none",
     domain_type |-> "unknown", database_found |-> FALSE,
     database_updated |-> FALSE, error |-> null]

\* the results returned before any lookup: invalid email, unexpected exception
rejected_result(error) ==
    [linkedin_url |-> null, success |-> FALSE, method_used |-> "none",
     domain_type |-> "unknown", database_found |-> FALSE,
     database_updated |-> FALSE, error |-> error]

\* a cache hit that goes on to classify the email
cache_hit_classifies(cached, calls) ==
    [result |-> [linkedin_url |-> cached, success |-> TRUE,
                 method_used |-> "database_cache", domain_type |-> "unknown",
                 database_found |-> TRUE, database_updated |-> FALSE,
                 error |-> null],
     calls |-> calls \o <<"classify_email">>]

\* the return on a cached URL
cache_hit(cached, calls) ==
    [result |-> [linkedin_url |-> cached, success |-> TRUE,
                 method_used |-> "database_cache", domain_type |-> "unknown",
                 database_found |-> TRUE, database_updated |-> FALSE,
                 error |-> null],
     calls |-> calls]

\* rocketreach_lookup.lookup_by_email as the orchestrator sees it
provider_url(env) == IF env.provider = "url" THEN "url_rocketreach" ELSE null

\* the work / personal branches: the URL found, the method, the error message
\* and the calls made, in order
search(env) ==
    IF uses_cascade(env.domain_type)
    THEN IF env.cascade = "url"
         THEN [linkedin_url |-> "url_google", method_used |-> "google_search",
               error |-> null, calls |-> <<"find_linkedin_profile">>]
         ELSE IF env.cascade = "none"
         THEN [linkedin_url |-> provider_url(env),
               method_used |-> IF env.provider = "url" THEN "rocketreach_fallback"
                               ELSE null,
               error |-> IF env.provider = "raise" THEN "rocketreach_fallback_failed"
                         ELSE null,
               calls |-> <<"find_linkedin_profile", "lookup_by_email">>]
         ELSE [linkedin_url |-> provider_url(env),
               method_used |-> IF env.provider = "raise" THEN null
                               ELSE "rocketreach_fallback",
               error |-> IF env.provider = "raise" THEN "both_failed"
                         ELSE "google_search_error",
               calls |-> <<"find_linkedin_profile", "lookup_by_email">>]
    ELSE [linkedin_url |-> provider_url(env),
          method_used |-> IF env.provider = "raise" THEN null
                          ELSE "rocketreach_primary",
          error |-> IF env.provider = "raise" THEN "rocketreach_failed" ELSE null,
          calls |-> <<"lookup_by_email">>]

\* an update that reports success and stores nothing
stored_row_unchanged(updated, linkedin_url, row) == row

\* subscriber_repo.update_linkedin_url: the subscriber row after the lookup
stored_row(updated, linkedin_url, row) == IF updated THEN linkedin_url ELSE row

\* orchestrate_lookup: the result, the calls made in order, and the cached
\* URL as the call leaves it
orchestrate_lookup(env, row) ==
    IF EmailValid[env.email] = "raise"
    THEN [result |-> rejected_result("orchestration_error"), calls |-> <<>>, cache |-> row]
    ELSE IF EmailValid[env.email] = "False"
    THEN [result |-> rejected_result("invalid_email"), calls |-> <<>>, cache |-> row]
    ELSE
    LET subscriber_exists == env.db # "down" /\ row # "absent"
        cached == IF subscriber_exists /\ env.db = "ok" /\ row # "no_url"
                  THEN row ELSE null
        db_calls == IF subscriber_exists
                    THEN <<"subscriber_exists", "get_linkedin_url">>
                    ELSE <<"subscriber_exists">>
    IN  IF cached # null
        THEN cache_hit(cached, db_calls) @@ [cache |-> row]
        ELSE LET found == search(env)
                 update == found.linkedin_url # null /\ subscriber_exists
                 updated == update /\ env.update_ok
             IN  [result |-> lookup_result(found.linkedin_url, found.method_used,
                                           env.domain_type, subscriber_exists,
                                           updated, found.error),
                  calls |-> db_calls \o <<"classify_email">> \o found.calls
                               \o (IF update THEN <<"update_linkedin_url">> ELSE <<>>),
                  cache |-> stored_row(updated, found.linkedin_url, row)]

NoLookup == [env |-> CHOOSE e \in LookupEnvs : TRUE, before |-> "absent",
             result |-> rejected_result(null), calls |-> <<>>, n |-> 0]

\* no orchestrate_lookup call in progress
NoRequest ==
    [pc |-> "idle", email |-> "e_ok", db |-> "ok", domain_type |-> "unknown",
     google_domain_used |-> null]

(***************************************************************************)
(* The search cascade (services/google_search.py, services/query_builder.py) *)
(***************************************************************************)
\* self.google_domains
google_domains == <<"google.com", "google.de", "google.com.eg", "google.com.au">>

\* what one google_search call on one domain gives: results with a LinkedIn
\* URL among them, results without one, no results, an exception
SearchOutcomes == {"linkedin", "other", "empty", "raise"}

\* the search_params lookup_processor passes, next to the sanitized email "e":
\* a last name comes only with a first name; null is None or ""
SearchParams ==
    {p \in [first_name : {null, "f"}, last_name : {null, "l"},
            state : {null, "s"}, country : {null, "c"}] :
        p.last_name # null => p.first_name # null}

\* email_query = f"{email} + LinkedIn"; a query is the list of the parts that
\* " + " joins
email_query == <<"e", "LinkedIn">>

\* QueryBuilder.build_search_query
build_search_query(p) ==
    <<"e">>
    \o (IF p.first_name # null /\ p.last_name # null THEN <<p.first_name, p.last_name>>
        ELSE IF p.first_name # null THEN <<p.first_name>> ELSE <<>>)
    \o (IF p.state # null THEN <<p.state>> ELSE <<>>)
    \o (IF p.country # null THEN <<p.country>> ELSE <<>>)
    \o <<"LinkedIn">>

\* the elements of a list
Range(v) == {v[i] : i \in 1..Len(v)}

\* list(dict.fromkeys(variations))
RECURSIVE unique(_)
unique(v) ==
    IF v = <<>> THEN v
    ELSE LET front == unique(SubSeq(v, 1, Len(v) - 1))
         IN  IF v[Len(v)] \in Range(front) THEN front ELSE Append(front, v[Len(v)])

\* QueryBuilder.build_query_variations
build_query_variations(p) ==
    LET primary_query == build_search_query(p)
        email_only_query == <<"e", "LinkedIn">>
        first_name_query == <<"e", p.first_name, "LinkedIn">>
        location_query == <<"e", p.first_name, p.last_name>>
                          \o (IF p.state # null THEN <<p.state>> ELSE <<>>)
                          \o (IF p.country # null THEN <<p.country>> ELSE <<>>)
                          \o <<"LinkedIn">>
        site_query == <<"e site:linkedin.com">>
        v0 == <<primary_query>>
        v1 == IF email_only_query # primary_query THEN Append(v0, email_only_query) ELSE v0
        v2 == IF p.first_name # null /\ first_name_query # primary_query
                 /\ first_name_query \notin Range(v1)
              THEN Append(v1, first_name_query) ELSE v1
        v3 == IF p.first_name # null /\ p.last_name # null
                 /\ (p.state # null \/ p.country # null)
                 /\ location_query # primary_query /\ location_query \notin Range(v2)
              THEN Append(v2, location_query) ELSE v2
    IN  unique(Append(v3, site_query))

\* query_variations = QueryBuilder.build_query_variations(search_params), for
\* each search_params, as a table (@@ <<>> adds nothing to it)
query_variations == [p \in SearchParams |-> build_query_variations(p)] @@ <<>>

\* what the chat completion request gives: a reply with its content, a failed
\* request, a body that is not the expected JSON
JudgeReplies ==
    [j_url |-> [kind |-> "ok", content |-> <<"l", "i", "n", "k", "e", "d", "i", "n", ".", "c", "o", "m", "/", "i", "n", "/", "a">>],
     j_upper |-> [kind |-> "ok", content |-> <<"L", "i", "n", "k", "e", "d", "I", "n", ".", "c", "o", "m", "/", "I", "N", "/", "a">>],
     j_null |-> [kind |-> "ok", content |-> <<"n", "u", "l", "l">>],
     j_null_upper |-> [kind |-> "ok", content |-> <<" ", "N", "U", "L", "L", " ">>],
     j_invented |-> [kind |-> "ok", content |-> <<"l", "i", "n", "k", "e", "d", "i", "n", ".", "c", "o", "m", "/", "i", "n", "/", "z">>],
     j_other |-> [kind |-> "ok", content |-> <<"x", ".", "i", "o", "/", "a">>],
     j_company |-> [kind |-> "ok", content |-> <<"l", "i", "n", "k", "e", "d", "i", "n", ".", "c", "o", "m", "/", "c", "o", "m", "p", "a", "n", "y", "/", "x">>],
     j_http_error |-> [kind |-> "http_error", content |-> <<>>],
     j_bad_json |-> [kind |-> "bad_json", content |-> <<>>]]

JudgeNames == DOMAIN JudgeReplies

\* a judgment that returns whatever the reply holds, unless it is "null"
query_openai_unvalidated(api_key, search_results, reply) ==
    IF ~api_key THEN no_url
    ELSE IF search_results = 0 THEN no_url
    ELSE IF reply.kind # "ok" THEN no_url
    ELSE IF lower(strip(reply.content)) = <<"n", "u", "l", "l">> THEN no_url
    ELSE strip(reply.content)

\* GoogleSearch.query_openai: the URL returned, or null
query_openai(api_key, search_results, reply) ==
    IF ~api_key THEN no_url
    ELSE IF search_results = 0 THEN no_url
    ELSE IF reply.kind # "ok" THEN no_url
    ELSE LET linkedin_url == strip(reply.content)
         IN  IF lower(linkedin_url) = <<"n", "u", "l", "l">> THEN no_url
             ELSE IF Contains(<<"l", "i", "n", "k", "e", "d", "i", "n", ".", "c", "o", "m", "/", "i", "n", "/">>, lower(linkedin_url))
             THEN linkedin_url
             ELSE no_url

\* find_linkedin_profile_multi_domain not running
NoCascade ==
    [pc |-> "idle", phase |-> 0, api_key |-> TRUE,
     params |-> [first_name |-> null, last_name |-> null, state |-> null, country |-> null],
     pending |-> <<>>, query |-> <<>>, pass |-> 0, di |-> 0, asked |-> <<>>,
     last |-> "none", raised |-> FALSE, results |-> "empty", domain |-> null, issued |-> <<>>,
     judged |-> <<>>, ret_url |-> no_url, ret_domain |-> null]

\* multi_domain_search(query) entered: nothing found, no domain asked yet
start_search(c, q) ==
    [c EXCEPT !.pc = "search", !.query = q, !.pass = 1, !.di = 1, !.asked = <<>>,
              !.last = "none", !.raised = FALSE, !.results = "empty", !.domain = null,
              !.issued = Append(@, q)]

\* a loop over query_variations that skips nothing
next_variation_no_skip(c) ==
    IF c.pending = <<>>
    THEN [c EXCEPT !.pc = "done", !.ret_url = no_url, !.ret_domain = null]
    ELSE start_search([c EXCEPT !.pending = Tail(@)], Head(c.pending))

\* the loop over query_variations: the email-only query is skipped, the
\* exhausted list returns (None, None)
RECURSIVE next_variation(_)
next_variation(c) ==
    IF c.pending = <<>>
    THEN [c EXCEPT !.pc = "done", !.ret_url = no_url, !.ret_domain = null]
    ELSE IF Head(c.pending) = email_query
    THEN next_variation([c EXCEPT !.pending = Tail(@)])
    ELSE start_search([c EXCEPT !.pending = Tail(@)], Head(c.pending))

\* a cascade that returns the miss at the first query without a match
no_match_returns_miss(c) ==
    [c EXCEPT !.pc = "done", !.ret_url = no_url, !.ret_domain = null]

\* a query that gave no match: Phase 1 goes on to Phase 2, Phase 2 to its next
\* variation
no_match(c) ==
    IF c.phase = 1
    THEN next_variation([c EXCEPT !.phase = 2,
                                  !.pending = query_variations[c.params]])
    ELSE next_variation(c)

\* multi_domain_search returned: the results are judged if a LinkedIn URL is
\* among them
search_returned(c) ==
    IF c.results = "linkedin" THEN [c EXCEPT !.pc = "judge"] ELSE no_match(c)

\* a first pass that goes on to the next domain after LinkedIn results
google_search_step_no_break(c, outcome) ==
    LET domain == google_domains[c.di]
        asked == [c EXCEPT !.asked = Append(@, domain), !.last = outcome,
                           !.raised = @ \/ outcome = "raise"]
        found == IF outcome \in {"linkedin", "other"}
                 THEN [asked EXCEPT !.results = outcome, !.domain = domain]
                 ELSE asked
    IN  IF c.di = Len(google_domains) THEN search_returned(found)
        ELSE [found EXCEPT !.di = @ + 1]

\* one google_search call of multi_domain_search, on the next domain
google_search_step(c, outcome) ==
    LET domain == google_domains[c.di]
        asked == [c EXCEPT !.asked = Append(@, domain), !.last = outcome,
                           !.raised = @ \/ outcome = "raise"]
        last_domain == c.di = Len(google_domains)
    IN  IF c.pass = 1
        THEN IF outcome = "linkedin"
             THEN search_returned([asked EXCEPT !.results = "linkedin", !.domain = domain])
             ELSE IF last_domain THEN [asked EXCEPT !.pass = 2, !.di = 1]
             ELSE [asked EXCEPT !.di = @ + 1]
        ELSE IF outcome \in {"linkedin", "other"}
             THEN search_returned([asked EXCEPT !.results = outcome, !.domain = domain])
             ELSE IF last_domain THEN search_returned(asked)
             ELSE [asked EXCEPT !.di = @ + 1]

\* a judgment that returns its URL with the first domain of the list
judge_step_first_domain(c, reply) ==
    LET linkedin_url == query_openai(c.api_key, 1, reply)
        judged == [c EXCEPT !.judged = Append(@, c.query)]
    IN  IF linkedin_url # no_url
        THEN [judged EXCEPT !.pc = "done", !.ret_url = linkedin_url,
                            !.ret_domain = google_domains[1]]
        ELSE no_match(judged)

\* a judgment that is asked a second time when it declared no match
judge_step_asks_twice(c, reply) ==
    LET linkedin_url == query_openai(c.api_key, 1, reply)
        judged == [c EXCEPT !.judged = Append(@, c.query)]
    IN  IF linkedin_url # no_url
        THEN [judged EXCEPT !.pc = "done", !.ret_url = linkedin_url, !.ret_domain = c.domain]
        ELSE IF c.query \notin Range(c.judged) THEN judged
        ELSE no_match(judged)

\* query_openai on the LinkedIn results of the query: a URL is returned with
\* the domain of the search
judge_step(c, reply) ==
    LET linkedin_url == query_openai(c.api_key, 1, reply)
        judged == [c EXCEPT !.judged = Append(@, c.query)]
    IN  IF linkedin_url # no_url
        THEN [judged EXCEPT !.pc = "done", !.ret_url = linkedin_url, !.ret_domain = c.domain]
        ELSE no_match(judged)

\* query_openai not called
NoJudge == [api_key |-> TRUE, search_results |-> 0, reply |-> "j_null",
            called |-> FALSE, ret |-> no_url]

\* no cascade running, no judgment asked
CascadeIdle == cs = NoCascade /\ jd = NoJudge

(***************************************************************************)
(* The alternate provider's rate limiting (services/personal_lookup.py,    *)
(* utils/cloud_storage.py)                                                 *)
(***************************************************************************)
\* self.cooldown_seconds
cooldown_seconds == 10

\* self.max_calls_per_hour
max_calls_per_hour == 70

\* timedelta(hours=1), in seconds
one_hour == 3600

\* self.lookup_functions.keys()
lookup_functions ==
    {"get_lkd_profile_devloper_nbo", "get_lkd_profile_muhammad_helmey_006",
     "get_lkd_profile_ahmed_helmey_006", "get_lkd_profile_ahmed_modelwiz",
     "get_lkd_profile_ahmed_helmey_009", "get_lkd_profile_ichbin"}

\* the server processes that share the stored call history
Processes == {"p1", "p2"}

\* _can_call_function, on the history read from storage
can_call_function(function_name, history, t) ==
    LET calls == history[function_name]
        recent_calls == {i \in 1..Len(calls) : calls[i] > t - one_hour}
    IN  IF calls # <<>> /\ t - calls[Len(calls)] < cooldown_seconds THEN FALSE
        ELSE IF Cardinality(recent_calls) >= max_calls_per_hour THEN FALSE
        ELSE TRUE

\* _select_available_function: the functions random.choice picks from
available_functions(history, t) ==
    {f \in lookup_functions : can_call_function(f, history, t)}

\* CloudStorageManager.update_call_history
update_call_history(history, function_name, timestamp) ==
    [history EXCEPT ![function_name] = Append(@, timestamp)]

\* no lookup_by_email running
NoProviderCall == [pc |-> "idle", function_name |-> null, outcome |-> "none", calls |-> 0]

\* storage without the history file, no process in a call
ProviderIdle ==
    /\ call_history = [f \in lookup_functions |-> <<>>]
    /\ now = 0
    /\ rr = [p \in Processes |-> NoProviderCall]
    /\ invoked = [f \in lookup_functions |-> <<>>]

(***************************************************************************)
(* The email classifier (services/email_classification/classifier.py)      *)
(***************************************************************************)
\* _get_default_domains
personal_domains ==
    {<<"g", "m", "a", "i", "l", ".", "c", "o", "m">>,
     <<"y", "a", "h", "o", "o", ".", "c", "o", "m">>,
     <<"h", "o", "t", "m", "a", "i", "l", ".", "c", "o", "m">>,
     <<"o", "u", "t", "l", "o", "o", "k", ".", "c", "o", "m">>,
     <<"a", "o", "l", ".", "c", "o", "m">>,
     <<"p", "r", "o", "t", "o", "n", "m", "a", "i", "l", ".", "c", "o", "m">>,
     <<"i", "c", "l", "o", "u", "d", ".", "c", "o", "m">>,
     <<"m", "a", "i", "l", ".", "c", "o", "m">>,
     <<"z", "o", "h", "o", ".", "c", "o", "m">>,
     <<"y", "a", "n", "d", "e", "x", ".", "c", "o", "m">>,
     <<"g", "m", "x", ".", "c", "o", "m">>,
     <<"t", "u", "t", "a", "n", "o", "t", "a", ".", "c", "o", "m">>,
     <<"m", "a", "i", "l", ".", "r", "u">>}

\* _get_default_providers
personal_providers ==
    {<<"g", "m", "a", "i", "l">>,
     <<"y", "a", "h", "o", "o">>,
     <<"h", "o", "t", "m", "a", "i", "l">>,
     <<"o", "u", "t", "l", "o", "o", "k">>,
     <<"l", "i", "v", "e">>,
     <<"m", "s", "n">>,
     <<"a", "o", "l">>,
     <<"p", "r", "o", "t", "o", "n", "m", "a", "i", "l">>,
     <<"p", "r", "o", "t", "o", "n">>,
     <<"i", "c", "l", "o", "u", "d">>,
     <<"z", "o", "h", "o">>,
     <<"y", "a", "n", "d", "e", "x">>,
     <<"g", "m", "x">>}

\* s.endswith(suffix)
EndsWith(s, suffix) ==
    Len(suffix) <= Len(s) /\ SubSeq(s, Len(s) - Len(suffix) + 1, Len(s)) = suffix

\* s.startswith(prefix)
StartsWith(s, prefix) == Len(prefix) <= Len(s) /\ SubSeq(s, 1, Len(prefix)) = prefix

\* self.provider_pattern.search(text): for some provider of two characters or
\* more, one of ^p$, ^p\., \.p$, \.p\.
provider_pattern_search(text) ==
    \E provider \in {q \in personal_providers : Len(q) >= 2} :
        \/ text = provider
        \/ StartsWith(text, provider \o <<".">>)
        \/ EndsWith(text, <<".">> \o provider)
        \/ Contains(<<".">> \o provider \o <<".">>, text)

\* '.'.join(domain_parts[i:]) for each i: the domain, and what follows each
\* of its dots
partial_domains(domain) ==
    {domain} \cup {SubSeq(domain, k + 1, Len(domain)) :
                      k \in {i \in 1..Len(domain) : domain[i] = "."}}

\* email.split('@')[-1].lower()
domain_of(chars) == lower(split(chars, "@")[Len(split(chars, "@"))])

business_tlds ==
    {<<".", "c", "o", "m">>,
     <<".", "c", "o">>,
     <<".", "b", "i", "z">>,
     <<".", "l", "t", "d">>,
     <<".", "p", "r", "o">>,
     <<".", "c", "o", "m", "p", "a", "n", "y">>,
     <<".", "n", "e", "t">>}

country_tlds ==
    {<<".", "u", "k">>,
     <<".", "c", "a">>,
     <<".", "a", "u">>,
     <<".", "f", "r">>,
     <<".", "d", "e">>,
     <<".", "i", "t">>,
     <<".", "e", "s">>,
     <<".", "j", "p">>}

business_prefixes ==
    {<<".", "c", "o">>,
     <<".", "c", "o", "m">>,
     <<".", "b", "i", "z">>,
     <<".", "e", "n", "t", "e", "r", "p", "r", "i", "s", "e">>,
     <<".", "b", "u", "s", "i", "n", "e", "s", "s">>}

\* a classifier that looks at the business TLDs before the provider names
is_work_email_tld_first(email) ==
    IF email.kind = "str" /\ Contains(<<"@", "n", "i", "c", "o", "l", "a", "s", "b", "o", "u", "c", "h", "e", "r", ".", "o", "n", "l", "i", "n", "e">>, lower(email.chars))
    THEN TRUE
    ELSE IF email.kind # "str" \/ ~Contains(<<"@">>, email.chars) THEN FALSE
    ELSE LET domain == domain_of(email.chars)
         IN  IF domain \in personal_domains THEN FALSE
             ELSE IF \E tld \in business_tlds : EndsWith(domain, tld) THEN TRUE
             ELSE FALSE

\* EmailClassifier.is_work_email
is_work_email(email) ==
    IF email.kind = "str" /\ Contains(<<"@", "n", "i", "c", "o", "l", "a", "s", "b", "o", "u", "c", "h", "e", "r", ".", "o", "n", "l", "i", "n", "e">>, lower(email.chars))
    THEN TRUE
    ELSE IF email.kind # "str" \/ ~Contains(<<"@">>, email.chars) THEN FALSE
    ELSE LET domain == domain_of(email.chars)
         IN  IF domain \in personal_domains THEN FALSE
             ELSE IF \/ Contains(<<"e", "m", "a", "i", "l">>, domain)
                     \/ (Contains(<<"m", "a", "i", "l">>, domain) /\ ~Contains(<<"g", "m", "a", "i", "l">>, domain))
             THEN FALSE
             ELSE IF \E partial_domain \in partial_domains(domain) :
                        provider_pattern_search(partial_domain)
             THEN FALSE
             ELSE IF \E provider \in personal_providers : Contains(provider, domain)
             THEN FALSE
             ELSE IF Contains(<<"e", "n", "t", "e", "r", "p", "r", "i", "s", "e", ".", "o", "r", "g">>, domain) \/ Contains(<<"b", "u", "s", "i", "n", "e", "s", "s", ".", "o", "r", "g">>, domain)
             THEN TRUE
             ELSE IF Contains(<<"b", "u", "s", "i", "n", "e", "s", "s", ".", "n", "e", "t">>, domain) \/ Contains(<<"e", "n", "t", "e", "r", "p", "r", "i", "s", "e", ".", "n", "e", "t">>, domain)
             THEN TRUE
             ELSE IF EndsWith(domain, <<".", "e", "d", "u">>) \/ Contains(<<".", "e", "d", "u", ".">>, domain)
             THEN FALSE
             ELSE IF EndsWith(domain, <<".", "g", "o", "v">>) \/ Contains(<<".", "g", "o", "v", ".">>, domain)
             THEN TRUE
             ELSE IF \E tld \in business_tlds : EndsWith(domain, tld) THEN TRUE
             ELSE IF \E tld \in country_tlds :
                        /\ EndsWith(domain, tld)
                        /\ \E prefix \in business_prefixes : Contains(prefix \o tld, domain)
             THEN TRUE
             ELSE IF EndsWith(domain, <<".", "c", "o", "m">>) THEN TRUE
             ELSE FALSE

\* a classification that calls an email without "@" personal
classify_email_unguarded(email) ==
    IF email.kind # "str" \/ ~Contains(<<"@">>, email.chars)
    THEN [domain_type |-> "personal", domain |-> <<>>, raised |-> FALSE]
    ELSE [domain_type |-> IF is_work_email(email) THEN "work" ELSE "personal",
          domain |-> domain_of(email.chars), raised |-> FALSE]

\* EmailClassifier.classify_email: (domain_type, domain); nothing in it raises
\* for None or a string
classify_email(email) ==
    IF email.kind # "str" \/ email.chars = <<>> \/ ~Contains(<<"@">>, email.chars)
    THEN [domain_type |-> "unknown", domain |-> <<>>, raised |-> FALSE]
    ELSE [domain_type |-> IF is_work_email(email) THEN "work" ELSE "personal",
          domain |-> domain_of(email.chars), raised |-> FALSE]

\* str.upper() of the lower-case texts used here
upper(s) ==
    [i \in 1..Len(s) |->
        IF \E c \in DOMAIN ToLower : ToLower[c] = s[i]
        THEN CHOOSE c \in DOMAIN ToLower : ToLower[c] = s[i]
        ELSE s[i]]

\* the domains of the emails classified
ClassifyDomains ==
    {<<"g", "m", "a", "i", "l", ".", "c", "o", "m">>,
     <<"m", "a", "i", "l", ".", "r", "u">>,
     <<"m", "a", "i", "l", "e", "r", ".", "f", "r">>,
     <<"e", "m", "a", "i", "l", ".", "g", "o", "v">>,
     <<"g", "m", "a", "i", "l", ".", "c", "o">>,
     <<"x", ".", "l", "i", "v", "e", ".", "d", "e">>,
     <<"o", "l", "i", "v", "e", ".", "c", "o", "m">>,
     <<"m", "s", "n", ".", "b", "u", "s", "i", "n", "e", "s", "s", ".", "o", "r", "g">>,
     <<"b", "u", "s", "i", "n", "e", "s", "s", ".", "o", "r", "g">>,
     <<"e", "n", "t", "e", "r", "p", "r", "i", "s", "e", ".", "n", "e", "t">>,
     <<"x", ".", "e", "d", "u">>,
     <<"x", ".", "e", "d", "u", ".", "e", "g">>,
     <<"x", ".", "g", "o", "v">>,
     <<"a", "c", "m", "e", ".", "c", "o", "m">>,
     <<"a", "c", "m", "e", ".", "c", "o">>,
     <<"a", "c", "m", "e", ".", "n", "e", "t">>,
     <<"a", "c", "m", "e", ".", "c", "o", ".", "u", "k">>,
     <<"a", "c", "m", "e", ".", "b", "u", "s", "i", "n", "e", "s", "s", ".", "f", "r">>,
     <<"a", "c", "m", "e", ".", "u", "k">>,
     <<"a", "c", "m", "e", ".", "o", "r", "g">>,
     <<"a", "c", "m", "e", ".", "f", "r">>,
     <<"e", "d", "u", ".", "c", "o", "m">>,
     <<"n", "i", "c", "o", "l", "a", "s", "b", "o", "u", "c", "h", "e", "r", ".", "o", "n", "l", "i", "n", "e">>}

\* what stands before the last "@"
ClassifyLocals == {<<"a">>, <<"b", "@", "n", "i", "c", "o", "l", "a", "s", "b", "o", "u", "c", "h", "e", "r", ".", "o", "n", "l", "i", "n", "e">>}

\* the emails classified: with "@" in lower and upper case, without "@", the
\* empty string, None
ClassifyEmails ==
    {[kind |-> "str", chars |-> l \o <<"@">> \o d] : l \in ClassifyLocals, d \in ClassifyDomains}
    \cup {[kind |-> "str", chars |-> upper(l \o <<"@">> \o d)] :
             l \in ClassifyLocals, d \in ClassifyDomains}
    \cup {[kind |-> "str", chars |-> d] : d \in ClassifyDomains}
    \cup {[kind |-> "str", chars |-> <<>>], [kind |-> "none", chars |-> <<>>]}

\* classify_email not called
NoClassify == [email |-> [kind |-> "none", chars |-> <<>>], called |-> FALSE,
               ret |-> [domain_type |-> "unknown", domain |-> <<>>, raised |-> FALSE]]

\* NameExtractor.non_personal
non_personal ==
    {<<"a", "d", "m", "i", "n">>,
     <<"i", "n", "f", "o">>,
     <<"c", "o", "n", "t", "a", "c", "t">>,
     <<"h", "e", "l", "l", "o">>,
     <<"s", "a", "l", "e", "s">>,
     <<"s", "u", "p", "p", "o", "r", "t">>,
     <<"m", "a", "r", "k", "e", "t", "i", "n", "g">>,
     <<"h", "e", "l", "p">>,
     <<"w", "e", "b", "m", "a", "s", "t", "e", "r">>,
     <<"n", "o", "r", "e", "p", "l", "y">>,
     <<"n", "o", "-", "r", "e", "p", "l", "y">>,
     <<"t", "e", "a", "m">>,
     <<"o", "f", "f", "i", "c", "e">>,
     <<"b", "i", "l", "l", "i", "n", "g">>,
     <<"m", "a", "i", "l">>,
     <<"p", "o", "s", "t", "m", "a", "s", "t", "e", "r">>,
     <<"j", "o", "b", "s">>,
     <<"c", "a", "r", "e", "e", "r">>,
     <<"h", "r">>,
     <<"s", "e", "r", "v", "i", "c", "e">>,
     <<"s", "e", "r", "v", "i", "c", "e", "s">>}

\* str.isalpha()
isalpha(s) == s # <<>> /\ \A i \in 1..Len(s) : s[i] \in Letters

\* str.capitalize()
capitalize(s) == IF s = <<>> THEN s ELSE upper(<<s[1]>>) \o lower(Tail(s))

\* str.split() without an argument: the pieces between runs of spaces
words(s) == SelectSeq(split(s, " "), LAMBDA w : w # <<>>)

\* sep.join(parts)
RECURSIVE join(_, _)
join(parts, sep) ==
    IF parts = <<>> THEN <<>>
    ELSE IF Len(parts) = 1 THEN parts[1]
    ELSE parts[1] \o sep \o join(Tail(parts), sep)

\* NameExtractor._format_name
format_name(name) ==
    join([i \in 1..Len(words(name)) |->
             upper(<<words(name)[i][1]>>) \o lower(Tail(words(name)[i]))], <<" ">>)

\* a value that is None
none_value == [kind |-> "none", chars |-> <<>>]

\* a value that is a string
str_value(chars) == [kind |-> "str", chars |-> chars]

\* Python's truth of an Optional[str]
truthy(v) == v.kind = "str" /\ v.chars # <<>>

\* given_name and ' ' in given_name
is_full_name(given_name) == truthy(given_name) /\ Contains(<<" ">>, given_name.chars)

\* return None, method
no_name_empty(method) == [name |-> str_value(<<>>), method |-> method, raised |-> FALSE]
no_name(method) == [name |-> none_value, method |-> method, raised |-> FALSE]

\* return name, method
named(name, method) == [name |-> str_value(name), method |-> method, raised |-> FALSE]

\* email.split('@')[0].lower()
username_of(email) == lower(split(email, "@")[1])

\* email.split('@')[1].split('.')[0].capitalize(), "" where the code has None
domain_name_of(email) ==
    IF Contains(<<"@">>, email) THEN capitalize(split(split(email, "@")[2], ".")[1])
    ELSE <<>>

\* re.sub(r'[0-9]', '', re.sub(r'[._-]', ' ', username)).strip()
clean_username(username) ==
    strip(SelectSeq([i \in 1..Len(username) |->
                        IF username[i] \in {".", "_", "-"} THEN " " ELSE username[i]],
                    LAMBDA c : c \notin Digits))

\* NameExtractor._basic_fallback_extraction on an email that is a string
basic_fallback_extraction(email, given_name) ==
    LET username == username_of(email)
        domain == domain_name_of(email)
        dotted == split(username, ".")
        parts == words(clean_username(username))
    IN  IF truthy(given_name)
        THEN IF Contains(<<" ">>, given_name.chars)
             THEN named(given_name.chars, "Used provided full name")
             ELSE IF Len(domain) > 2
             THEN named(given_name.chars \o <<" ">> \o domain, "Combined first name and domain")
             ELSE named(given_name.chars \o <<" ", "U", "s", "e", "r">>, "Used provided first name")
        ELSE IF Contains(<<".">>, username) /\ Len(dotted) = 2
                /\ \A i \in 1..2 : Len(dotted[i]) > 1
        THEN named(capitalize(dotted[1]) \o <<" ">> \o capitalize(dotted[2]), "First.Last format")
        ELSE IF (\E i \in 1..Len(username) : username[i] \in {".", "_", "-"})
                /\ Len(parts) >= 2
        THEN named(join([i \in 1..Len(parts) |->
                            IF Len(parts[i]) = 1 THEN upper(parts[i])
                            ELSE capitalize(parts[i])], <<" ">>),
                   "Structured email fallback")
        ELSE IF (\E i \in 1..Len(username) : username[i] \in {".", "_", "-"})
                /\ Len(parts) = 1 /\ domain # <<>>
        THEN named(capitalize(parts[1]) \o <<" ">> \o domain, "Username and domain fallback")
        ELSE IF Len(username) > 1 /\ isalpha(<<username[1]>>) /\ isalpha(Tail(username))
                /\ Len(Tail(username)) > 2
        THEN named(upper(<<username[1]>>) \o <<".", " ">> \o capitalize(Tail(username)),
                   "First initial + last name fallback")
        ELSE IF Len(domain) > 2 /\ Len(username) > 2
        THEN named(capitalize(username) \o <<" ">> \o domain, "Username + domain fallback")
        ELSE IF Len(username) >= 3
        THEN named(capitalize(username) \o <<" ", "U", "s", "e", "r">>, "Single word username fallback")
        ELSE no_name("No name detected in fallback")

\* what NameExtractor._call_openai_api returns for the service's outcome: the
\* formatted reply of a 200 response, None for the reply "none" in any case,
\* for another status and for an exception (timeout, connection, malformed
\* body), all caught inside
call_openai_api(outcome) ==
    IF outcome.kind = "ok"
    THEN IF lower(strip(outcome.text)) = <<"n", "o", "n", "e">> THEN none_value
         ELSE str_value(format_name(strip(outcome.text)))
    ELSE none_value

\* NameExtractor.extract_name_from_email after _call_openai_api returned
after_openai(email, given_name, extracted_name) ==
    IF truthy(extracted_name) THEN named(extracted_name.chars, "OpenAI extraction")
    ELSE LET fallback == basic_fallback_extraction(email, given_name)
         IN  IF truthy(fallback.name)
             THEN named(fallback.name.chars, "Fallback: " \o fallback.method)
             ELSE no_name("No name detected by OpenAI")

\* NameExtractor.extract_name_from_email before _call_openai_api: the result
\* returned without it, or "call"
before_openai(email, given_name) ==
    IF is_full_name(given_name) THEN named(given_name.chars, "User provided full name")
    ELSE IF email.kind # "str" \/ ~Contains(<<"@">>, email.chars) THEN no_name("Invalid email")
    ELSE IF username_of(email.chars) \in non_personal THEN no_name("Non-personal email")
    ELSE IF Len(username_of(email.chars)) < 2
            \/ \A i \in 1..Len(username_of(email.chars)) : username_of(email.chars)[i] \in Digits
    THEN no_name("Invalid username")
    ELSE IF truthy(given_name) /\ Len(domain_name_of(email.chars)) > 2
    THEN named(given_name.chars \o <<" ">> \o domain_name_of(email.chars),
               "Combined first name and domain")
    ELSE [name |-> none_value, method |-> "call", raised |-> FALSE]

\* the emails names are extracted from
ExtractEmails ==
    {[kind |-> "str", chars |-> <<"j", "s", "m", "i", "t", "h", "@", "a", "c", "m", "e", ".", "c", "o", "m">>],
     [kind |-> "str", chars |-> <<"a", "l", ".", "b", "o", "@", "k", "z", "f", ".", "c", "o">>],
     [kind |-> "str", chars |-> <<"j", "_", "s", "9", "@", "a", "b", ".", "i", "o">>],
     [kind |-> "str", chars |-> <<"a", "l", "_", "@", "a", "b", ".", "i", "o">>],
     [kind |-> "str", chars |-> <<"a", "1", "@", "b", ".", "c", "o">>],
     [kind |-> "str", chars |-> <<"i", "n", "f", "o", "@", "a", "c", "m", "e", ".", "c", "o", "m">>],
     [kind |-> "str", chars |-> <<"1", "2", "@", "a", "c", "m", "e", ".", "c", "o", "m">>],
     [kind |-> "str", chars |-> <<"a", "@", "a", "c", "m", "e", ".", "c", "o", "m">>],
     [kind |-> "str", chars |-> <<"a", "1", "b", "@", "a", "c", "m", "e", ".", "c", "o", "m">>],
     [kind |-> "str", chars |-> <<"a", "1", "b", "@", "a", "b", ".", "i", "o">>],
     [kind |-> "str", chars |-> <<"A", "l", ".", "B", "o", "@", "a", "b", ".", "i", "o">>]}
    \cup {[kind |-> "str", chars |-> <<"a", "c", "m", "e", ".", "c", "o", "m">>], none_value, [kind |-> "other", chars |-> <<>>]}

\* the first names given: None, the empty string, a first name, a full name
GivenNames == {none_value, str_value(<<>>), str_value(<<"M", "a", "r", "k", "o">>), str_value(<<"J", "o", " ", "A", "n", "n">>)}

\* what the service does with a request: a 200 response with a reply, another
\* status, an exception (timeout after 10 seconds, connection, malformed body)
OpenaiOutcomes ==
    {[kind |-> "ok", text |-> t] : t \in {<<" ", "m", "a", "r", "k", "o", " ", " ", "l", "i", "n", "d", "h", "o", "l", "m", " ">>, <<"N", "o", "n", "e">>, <<"n", "o", "n", "e">>, <<>>, <<"N", "I", "C", "K">>}}
    \cup {[kind |-> "status", text |-> <<>>], [kind |-> "exception", text |-> <<>>]}

\* extract_name_from_email not called
NoExtract ==
    [pc |-> "idle", email |-> none_value, given_name |-> none_value, api_key |-> FALSE,
     calls |-> <<>>, outcome |-> "not_asked", extracted_name |-> none_value,
     ret |-> no_name("")]

\* no leaf component called
LeafIdle == cl = NoClassify /\ nx = NoExtract

\* BatchLinkedInProcessor.run not started
NoRun ==
    [pc |-> "idle", batch_size |-> 1, batch_number |-> 0, total_processed |-> 0,
     offset |-> 0, total_remaining |-> 0, records |-> <<>>, i |-> 0, processed |-> 0,
     skipped |-> 0, unprocessed_at_start |-> {}, attempted |-> {}, ended |-> "no"]

\* the batch processor not run
RunIdle == subs = <<>> /\ run = NoRun

\* the emails that reach the database
EmailKeys == {EmailKey(e) : e \in {n \in EmailNames : EmailValid[n] = "True"}}

\* no lookup made, no subscriber row
LookupIdle ==
    /\ cache = [k \in EmailKeys |-> "absent"]
    /\ lk = NoLookup
    /\ rq = NoRequest

\* the batch scraper, constructed on a day without a state file, not yet run
BatchIdle ==
    /\ state = create_fresh_state(1)
    /\ state_file = state
    /\ bpc = "idle"
    /\ current_cookie = "none"
    /\ left = 0
    /\ stopped = {}
    /\ last_scrape = NoScrape

Init ==
    /\ today = 1
    /\ usage_file \in FileInit
    /\ disk_ok = TRUE
    /\ tlog = TLogInit
    /\ tincs = 0
    /\ wk = [w \in Workers |-> Idle]
    /\ charged = 0
    /\ overlapped = {}
    /\ ledger = usage_file
    /\ BatchIdle
    /\ LookupIdle
    /\ CascadeIdle
    /\ ProviderIdle
    /\ LeafIdle
    /\ RunIdle

TrackerCheck(c, n) ==
    LET r == check_rate_limit(usage_file, today, c, n)
    IN  /\ usage_file' = r.file
        /\ tlog' = [op |-> "check", cookie |-> c, count |-> n, day |-> today,
                    is_allowed |-> r.is_allowed, remaining |-> r.remaining,
                    before |-> usage_file]
        /\ UNCHANGED <<today, disk_ok, tincs, wk, charged, overlapped, ledger, batch_vars, lookup_vars, cascade_vars, provider_vars, leaf_vars, run_vars>>

TrackerIncrement(c, n) ==
    /\ tincs < MaxTrackerIncs
    /\ LET r == increment_usage(usage_file, today, c, n, disk_ok)
       IN  /\ usage_file' = r.file
           /\ tlog' = [op |-> "increment", cookie |-> c, count |-> n, day |-> today,
                       is_allowed |-> TRUE, remaining |-> r.remaining,
                       before |-> usage_file]
    /\ tincs' = tincs + 1
    /\ ledger' = increment_usage(ledger, today, c, n, disk_ok).file
    /\ UNCHANGED <<today, disk_ok, wk, charged, overlapped, batch_vars, lookup_vars, cascade_vars, provider_vars, leaf_vars, run_vars>>

\* local midnight passes
Midnight ==
    /\ today < MaxDay
    /\ today' = today + 1
    /\ tlog' = [TLogInit EXCEPT !.op = "midnight", !.day = today + 1]
    /\ UNCHANGED <<usage_file, disk_ok, tincs, wk, charged, overlapped, ledger, batch_vars, lookup_vars, cascade_vars, provider_vars, leaf_vars, run_vars>>

\* counts a check is asked for: small ones, and the limit the scraper reports
\* and one more (the test asks for 70 and for 71)
CheckCounts == (0..MaxCount) \cup {reported_limit, reported_limit + 1}

TrackerNext ==
    \/ \E c \in CookieArgs, n \in CheckCounts : TrackerCheck(c, n)
    \/ \E c \in CookieArgs, n \in 0..MaxCount : TrackerIncrement(c, n)
    \/ Midnight

SpecTracker == Init /\ [][TrackerNext]_vars

(***************************************************************************)
(* The scrape coordinator                                                  *)
(***************************************************************************)
\* URL lists for scrape_profiles_bulk: up to MaxUrls URLs, at most one of
\* them invalid, at any place
BulkUrls == {"u_www", "u_company"}

BulkLists ==
    {us \in UNION {[1..k -> BulkUrls] : k \in 0..MaxUrls} :
        Len(invalid_urls(us)) <= 1}

\* the steps of one server process
Step(w, urlArgs, listArgs, cookieArgs, cookieFiles, outcomes, budget) ==
    \/ \E u \in urlArgs, c \in cookieArgs : ScrapeProfile(w, u, c)
    \/ \E us \in listArgs, c \in cookieArgs : ScrapeProfilesBulk(w, us, c)
    \/ RateLimitError(w)
    \/ \E files \in cookieFiles, status \in outcomes,
          items \in 0..Len(valid_urls(wk[w].urls)) :
            Dispatch(w, files, status, items, budget)
    \/ IncLoad(w)
    \/ IncSave(w)
    \/ Return(w)

\* one server process, one request at a time
Next ==
    \/ Step("w1", UrlNames, BulkLists, CookieArgs, CookieFiles, RunOutcomes, MaxCharged)
    \/ Midnight

Spec == Init /\ [][Next]_vars

\* two server processes on one day; each scrapes valid URLs through main or
\* backup
ConcurrentLists == {<<"u_www", "u_bare">>}

NextConcurrent ==
    \E w \in {"w1", "w2"} :
        Step(w, {"u_www"}, ConcurrentLists, {"main", "backup"}, {AllCookieFiles},
             {"SUCCEEDED", "FAILED"}, MaxChargedConcurrent)

\* the pool no process asks for starts unused
InitConcurrent ==
    /\ Init
    /\ usage_file.exists => (usage_file.date = today /\ usage_file.usage["personal"] = 0)

SpecConcurrent == InitConcurrent /\ [][NextConcurrent]_vars

\* three server processes on one day: the first makes bulk calls through main,
\* one after the other; the other two make single calls through backup
NextCrossPool ==
    \/ Step("w1", {}, ConcurrentLists, {"main"}, {AllCookieFiles},
            {"SUCCEEDED"}, MaxChargedCrossPool)
    \/ \E w \in {"w2", "w3"} :
          Step(w, {"u_www"}, {}, {"backup"}, {AllCookieFiles},
               {"SUCCEEDED"}, MaxChargedCrossPool)

\* main starts near its limit, the other pools unused
InitCrossPool ==
    /\ Init
    /\ usage_file.exists /\ usage_file.date = today
    /\ usage_file.usage = [c \in cookie_names |->
                             IF c = "main" THEN daily_limit - StartSlack ELSE 0]

SpecCrossPool == InitCrossPool /\ [][NextCrossPool]_vars

(***************************************************************************)
(* Claims about the tracker, under SpecTracker                             *)
(***************************************************************************)
\* what a pool has left on a day, read off the file: the counters of a file
\* stamped with another day, or of no file, do not count
RemainingOn(f, day, c) ==
    daily_limit - (IF f.exists /\ f.date = day THEN f.usage[c] ELSE 0)

\* C5: a check leaves the persisted counters and date stamp as they were, and
\* a check that directly follows a check with the same arguments returns the
\* same (allowed, remaining) pair, allowed or refused, stale file or not.
C5_CheckNeverMutates ==
    [][tlog'.op = "check" =>
          /\ usage_file' = usage_file
          /\ (tlog.op = "check" /\ tlog.cookie = tlog'.cookie /\ tlog.count = tlog'.count)
                => (tlog'.is_allowed = tlog.is_allowed /\ tlog'.remaining = tlog.remaining)
      ]_vars

\* C5 witness: a check was made on a file of the day before that holds usage
C5_Witness ==
    /\ tlog.op = "check"
    /\ tlog.cookie \in cookie_names
    /\ tlog.before.exists /\ tlog.before.date # tlog.day
    /\ tlog.before.usage[tlog.cookie] > 0
    /\ usage_file = tlog.before

UsedOn(f, day, c) == IF f.exists /\ f.date = day THEN f.usage[c] ELSE 0

RequestedCount(w) == Len(valid_urls(wk[w].urls))

\* C1: a scrape call calls increment_usage at most once and only after the
\* actor run came back SUCCEEDED; the usage file is written by nothing but the
\* increment of such a call, so a call that fails (run failed, timed out,
\* raised, cookies not loaded) leaves every used_count as it was.
C1_IncrementOnlyAfterSuccess ==
    [][/\ usage_file' # usage_file =>
            \E w \in Workers :
                /\ wk[w].pc = "inc_save" /\ wk'[w].pc = "done"
                /\ wk[w].run_status = "SUCCEEDED" /\ wk[w].runs = 1
                /\ wk[w].incs = 1
                /\ wk'[w].result.success
       /\ \A w \in Workers :
            /\ wk'[w].incs <= 1
            /\ wk'[w].incs = 1 => (wk'[w].run_status = "SUCCEEDED" /\ wk'[w].runs = 1)
            /\ (wk'[w].pc = "done" /\ ~wk'[w].result.success) => wk'[w].incs = 0
      ]_vars

\* C1 witness: a call whose run timed out has returned, on a pool that holds
\* usage today
C1_Witness ==
    /\ wk["w1"].pc = "done"
    /\ wk["w1"].run_status = "TIMED-OUT"
    /\ wk["w1"].result.error = "run_failed"
    /\ wk["w1"].incs = 0
    /\ UsedOn(usage_file, today, wk["w1"].cookie) > 0

\* C9: a refused check ends the call with a rate-limit error: is_allowed false,
\* the remaining count the check found for the pool, the remaining counts of
\* the other pools, no cookie load, no actor run, no increment, file untouched.
C9_RefusalIsReported ==
    [][\A w \in Workers :
         /\ (wk[w].pc = "idle" /\ wk'[w].pc = "others") =>
               /\ usage_file' = usage_file
               /\ wk'[w].cookie \in cookie_names =>
                     /\ wk'[w].remaining = RemainingOn(usage_file, today, wk'[w].cookie)
                     /\ Len(valid_urls(wk'[w].urls)) > wk'[w].remaining
         /\ wk[w].pc = "others" =>
               /\ wk'[w].pc \in {"others", "done"}
               /\ wk'[w].pc = "done" =>
                     LET r == wk'[w].result
                         rest == cookie_names \ {wk[w].cookie}
                     IN  /\ ~r.success /\ r.error = "rate_limit" /\ ~r.is_allowed
                         /\ r.remaining = wk[w].remaining
                         /\ r.detail.present
                         /\ DOMAIN r.detail.other_cookies_remaining = rest
                         /\ \A c \in rest :
                               r.detail.other_cookies_remaining[c]
                                  = RemainingOn(usage_file, today, c)
                         /\ wk'[w].cookie_loads = 0 /\ wk'[w].runs = 0 /\ wk'[w].incs = 0
                         /\ usage_file' = usage_file
      ]_vars

\* C9 witness: a bulk call with one valid URL more than the pool has left was
\* refused, reporting what is left, while another pool has more left
C9_Witness ==
    /\ wk["w1"].pc = "done" /\ wk["w1"].kind = "bulk"
    /\ wk["w1"].result.error = "rate_limit"
    /\ wk["w1"].result.remaining > 0
    /\ RequestedCount("w1") = wk["w1"].result.remaining + 1
    /\ \E c \in cookie_names \ {wk["w1"].cookie} :
          wk["w1"].result.detail.other_cookies_remaining[c] > wk["w1"].result.remaining

\* the URLs that contain linkedin.com/in/, whatever the case of their letters
MatchingUrls == {"u_www", "u_bare", "u_upper", "u_embed"}

\* C10: scrape_profile with a URL that does not contain linkedin.com/in/
\* returns the validation error at once: no cookie load, no actor run, no
\* increment, usage file untouched; a URL that contains it passes validation.
C10_MalformedUrlRejected ==
    [][\A w \in Workers :
         (wk[w].pc = "idle" /\ wk'[w].pc # "idle" /\ wk'[w].kind = "single") =>
            LET url == wk'[w].urls[1]
            IN  /\ url \notin MatchingUrls =>
                      /\ wk'[w].pc = "done"
                      /\ ~wk'[w].result.success
                      /\ wk'[w].result.error = "invalid_url"
                      /\ wk'[w].cookie_loads = 0 /\ wk'[w].runs = 0 /\ wk'[w].incs = 0
                      /\ usage_file' = usage_file
                /\ url \in MatchingUrls =>
                      /\ wk'[w].pc \in {"dispatch", "others"}
                      /\ wk'[w].result.error # "invalid_url"
      ]_vars

\* C10 witness: a company-page URL was rejected on a pool with usage left
C10_Witness ==
    /\ wk["w1"].pc = "done" /\ wk["w1"].kind = "single"
    /\ wk["w1"].urls = <<"u_company">>
    /\ wk["w1"].result.error = "invalid_url"
    /\ wk["w1"].cookie \in cookie_names
    /\ RemainingOn(usage_file, today, wk["w1"].cookie) > 0

(***************************************************************************)
(* Claims about concurrent server processes, under SpecConcurrent          *)
(***************************************************************************)
\* numbers of URLs one concurrent call asks for
ConcurrentCounts == {1} \cup {Len(us) : us \in ConcurrentLists}

\* C3: two calls on one pool can both pass the check before either increments
\* and leave the pool above daily_limit; the limit is exceeded only when calls
\* have overlapped, and by no more than one call's URLs.
C3_OvershootNeedsOverlap ==
    \A c \in cookie_names :
        usage_file.usage[c] > daily_limit =>
            /\ c \in overlapped
            /\ \E k \in ConcurrentCounts : usage_file.usage[c] <= daily_limit + k

\* C3 witness: both processes were admitted on the same pool, both have
\* incremented, and the pool is above its limit
C3_Witness ==
    /\ wk["w1"].pc = "done" /\ wk["w2"].pc = "done"
    /\ wk["w1"].result.success /\ wk["w2"].result.success
    /\ wk["w1"].cookie = wk["w2"].cookie
    /\ usage_file.usage[wk["w1"].cookie] > daily_limit

\* C4: when no process is inside a scrape call, every pool's persisted count is
\* what it was plus everything charged to it since.
C4_NoIncrementLost ==
    (\A w \in Workers : wk[w].pc \in {"idle", "done"}) =>
        \A c \in cookie_names : UsedOn(usage_file, today, c) = UsedOn(ledger, today, c)

\* C2: a pool whose scrape calls never overlapped one another in time holds a
\* used_count of at most daily_limit in every reachable state.
C2_NoOverlapNoOvershoot ==
    \A c \in cookie_names \ overlapped : usage_file.usage[c] <= daily_limit

(***************************************************************************)
(* The batch scraper (lkd_scraper.py): one process, one URL at a time      *)
(***************************************************************************)
\* where the loop goes once a URL is done
AfterUrl(n) == IF n = 0 THEN "idle" ELSE "loop"

\* process_profile_batch up to its loop, for a batch of n unscraped URLs
ProcessProfileBatch(n) ==
    /\ bpc = "idle"
    /\ LET st == reset_if_new_day(state, today)
           cookie == get_available_cookie(st)
       IN  /\ state' = st
           /\ state_file' = IF st # state THEN st ELSE state_file
           /\ stopped' = IF st # state THEN {} ELSE stopped
           /\ IF cookie = "none" \/ n = 0
              THEN /\ bpc' = "idle"
                   /\ current_cookie' = "none"
                   /\ left' = 0
              ELSE /\ bpc' = "loop"
                   /\ current_cookie' = cookie
                   /\ left' = n
    /\ UNCHANGED <<today, tlog, server_vars, lookup_vars, cascade_vars, provider_vars, last_scrape, leaf_vars, run_vars>>

\* the loop body up to the scrape_profile call
NextUrl(is_valid) ==
    /\ bpc = "loop"
    /\ IF ~is_valid
       THEN /\ left' = left - 1
            /\ bpc' = AfterUrl(left - 1)
            /\ UNCHANGED current_cookie
       ELSE LET r == state_check_rate_limit(state, current_cookie, 1)
                cookie == IF r.is_allowed THEN current_cookie
                          ELSE get_available_cookie(state)
            IN  IF cookie = "none"
                THEN /\ bpc' = "idle"
                     /\ current_cookie' = "none"
                     /\ left' = 0
                ELSE /\ bpc' = "scraping"
                     /\ current_cookie' = cookie
                     /\ UNCHANGED left
    /\ UNCHANGED <<today, tlog, server_vars, lookup_vars, cascade_vars, provider_vars, state, state_file, stopped, last_scrape, leaf_vars, run_vars>>

\* scrape_profile has returned: the rest of the loop body
ScrapeResponse(outcome) ==
    /\ bpc = "scraping"
    /\ last_scrape' = [outcome |-> outcome, cookie |-> current_cookie,
                       before |-> state.usage[current_cookie]]
    /\ IF outcome \in {"success", "verify_failed"}
       THEN /\ state' = state_increment_usage(state, current_cookie, 1)
            /\ state_file' = state'
            /\ bpc' = IF outcome = "verify_failed" THEN "terminated"
                      ELSE AfterUrl(left - 1)
            /\ left' = left - 1
            /\ UNCHANGED <<current_cookie, stopped, leaf_vars, run_vars>>
       ELSE IF outcome = "rate_limit"
       THEN LET st == mark_exhausted(state, current_cookie)
                cookie == get_available_cookie(st)
            IN  /\ state' = st
                /\ state_file' = st
                /\ stopped' = stopped \cup {current_cookie}
                /\ current_cookie' = cookie
                /\ IF cookie = "none"
                   THEN bpc' = "idle" /\ left' = 0
                   ELSE bpc' = AfterUrl(left - 1) /\ left' = left - 1
       ELSE /\ bpc' = AfterUrl(left - 1)
            /\ left' = left - 1
            /\ UNCHANGED <<state, state_file, current_cookie, stopped, leaf_vars, run_vars>>
    /\ UNCHANGED <<today, tlog, server_vars, lookup_vars, cascade_vars, provider_vars, leaf_vars, run_vars>>

\* the script is started again: ScrapingStateManager() loads the file
Restart ==
    /\ bpc \in {"idle", "terminated"}
    /\ state' = load_state(state_file, today)
    /\ state_file' = state'
    /\ stopped' = IF state_file.date # today THEN {} ELSE stopped
    /\ bpc' = "idle"
    /\ current_cookie' = "none"
    /\ left' = 0
    /\ UNCHANGED <<today, tlog, server_vars, lookup_vars, cascade_vars, provider_vars, last_scrape, leaf_vars, run_vars>>

\* a state file of today in which each cookie is unused or close to its limit
BatchStates ==
    {[date |-> 1,
      usage |-> [c \in cookie_names |-> IF c \in S THEN limits[c] - BatchSlack ELSE 0]] :
        S \in SUBSET cookie_names}

InitBatch ==
    /\ today = 1
    /\ usage_file = NoFile
    /\ disk_ok = TRUE
    /\ tlog = TLogInit
    /\ tincs = 0
    /\ wk = [w \in Workers |-> Idle]
    /\ charged = 0
    /\ overlapped = {}
    /\ ledger = usage_file
    /\ state \in BatchStates
    /\ state_file = state
    /\ bpc = "idle"
    /\ current_cookie = "none"
    /\ left = 0
    /\ stopped = {}
    /\ last_scrape = NoScrape
    /\ LookupIdle
    /\ CascadeIdle
    /\ ProviderIdle
    /\ LeafIdle
    /\ RunIdle

NextBatch ==
    \/ \E n \in 0..MaxBatch : ProcessProfileBatch(n)
    \/ \E is_valid \in BOOLEAN : NextUrl(is_valid)
    \/ \E outcome \in ScrapeOutcomes : ScrapeResponse(outcome)
    \/ Restart
    \/ Midnight

SpecBatch == InitBatch /\ [][NextBatch]_vars

C11_ChargesRecordsReturned ==
    [][\A w \in Workers :
         (wk[w].pc = "inc_save" /\ wk'[w].pc = "done" /\ wk[w].kind = "bulk") =>
            UsedOn(usage_file', usage_file'.date, wk[w].cookie)
               = UsedOn(usage_file, usage_file'.date, wk[w].cookie) + wk[w].items
      ]_vars

\* the number of URLs of a list that contain linkedin.com/in/
MatchingCount(us) == Cardinality({i \in 1..Len(us) : us[i] \in MatchingUrls})

\* C12: a bulk call splits its URLs into valid and invalid by syntax alone;
\* every result has valid_count + invalid_count = number of input URLs; the
\* rate-limit check and the charge use the number of valid URLs, and the actor
\* run is given the valid URLs only.
C12_BulkPartition ==
    [][\A w \in Workers :
         LET me == wk'[w]
             n == MatchingCount(me.urls)
         IN  /\ (me.pc = "done" /\ me.kind = "bulk") =>
                   /\ me.result.valid_count = n
                   /\ me.result.valid_count + me.result.invalid_count = Len(me.urls)
             /\ (wk[w].pc = "idle" /\ me.kind = "bulk" /\ me.cookie \in cookie_names) =>
                   /\ me.pc = "dispatch" => n <= RemainingOn(usage_file, today, me.cookie)
                   /\ me.pc = "others" => n > RemainingOn(usage_file, today, me.cookie)
                   /\ me.pc = "done" => n = 0
             /\ (wk[w].pc = "inc_save" /\ me.pc = "done" /\ me.kind = "bulk") =>
                   UsedOn(usage_file', usage_file'.date, me.cookie)
                      = UsedOn(usage_file, usage_file'.date, me.cookie) + n
             /\ me.kind = "bulk" =>
                   /\ \A i \in 1..Len(me.run_urls) : me.run_urls[i] \in MatchingUrls
                   /\ me.runs = 1 => Len(me.run_urls) = n
      ]_vars

\* C12 witness: a bulk call with two valid URLs and one invalid one succeeded on
\* an unused pool and was charged for two
C12_Witness ==
    /\ wk["w1"].pc = "done" /\ wk["w1"].kind = "bulk"
    /\ wk["w1"].result.success
    /\ wk["w1"].result.valid_count = 2 /\ wk["w1"].result.invalid_count = 1
    /\ Len(wk["w1"].run_urls) = 2
    /\ UsedOn(usage_file, today, wk["w1"].cookie) = 2

(***************************************************************************)
(* The scraper endpoint's answer to a scrape result                        *)
(***************************************************************************)
\* scrape_linkedin_profile: HTTP 429 when the result failed and its
\* rate_limit.is_allowed is False, else the result itself (HTTP 200)
endpoint_status(result) ==
    IF ~result.success /\ result.is_allowed = FALSE THEN 429 ELSE 200

\* C13: a result is answered with HTTP 429 (rate_limit.is_allowed false) only
\* when the rate-limit check refused the call; a validation failure is never
\* answered as a rate-limit condition.
C13_RateLimitSignalOnlyOnRefusal ==
    \A w \in Workers :
        (wk[w].pc = "done" /\ endpoint_status(wk[w].result) = 429) =>
            wk[w].result.error = "rate_limit"

\* C14: when the file named after the cookie is absent and the unnamed legacy
\* file is present, the call loads the legacy file and goes on to the actor
\* run; it fails for missing cookies only when both are absent.
C14_LegacyFallback ==
    \A w \in Workers :
        (wk[w].pc = "done" /\ wk[w].cookie_loads = 1
            /\ ~wk[w].cookie_files.named /\ wk[w].cookie_files.legacy) =>
                (wk[w].runs = 1 /\ wk[w].result.error # "cookies")

(***************************************************************************)
(* Claims about the tracker's limit and cookie names, under SpecTracker    *)
(***************************************************************************)
\* C15: the limit check_rate_limit enforces is the limit the scraper reports:
\* on a cookie with used count u, a check for n is allowed exactly when
\* u + n <= 70.
C15_EnforcedLimitIsReported ==
    (tlog.op = "check" /\ tlog.cookie \in cookie_names) =>
        (tlog.is_allowed <=>
            UsedOn(tlog.before, tlog.day, tlog.cookie) + tlog.count <= reported_limit)

\* C16: for a cookie name outside main / backup / personal, check_rate_limit
\* returns (False, 0) and increment_usage returns 0, and neither writes the
\* usage file.
C16_UnknownCookieName ==
    (tlog.op \in {"check", "increment"} /\ tlog.cookie \notin cookie_names) =>
        /\ tlog.remaining = 0
        /\ tlog.op = "check" => ~tlog.is_allowed
        /\ usage_file = tlog.before

\* C16 witness: an increment under an unknown name, with a file of the day
\* before that holds usage
C16_Witness ==
    /\ tlog.op = "increment" /\ tlog.cookie \notin cookie_names /\ tlog.count > 0
    /\ tlog.before.exists /\ tlog.before.date # tlog.day
    /\ tlog.before.usage["main"] > 0

(***************************************************************************)
(* The lookup orchestrator: one lookup after another for one email         *)
(***************************************************************************)
OrchestrateLookup(env) ==
    /\ lk.n < MaxLookups
    /\ LET key == EmailKey(env.email)
           row == IF key \in EmailKeys THEN cache[key] ELSE "absent"
           r == orchestrate_lookup(env, row)
       IN  /\ lk' = [env |-> env, before |-> row, result |-> r.result,
                     calls |-> r.calls, n |-> lk.n + 1]
           /\ cache' = IF key \in EmailKeys THEN [cache EXCEPT ![key] = r.cache]
                       ELSE cache
    /\ UNCHANGED <<today, tlog, server_vars, batch_vars, cascade_vars, provider_vars, rq, leaf_vars, run_vars>>

\* the subscriber row as it is before the first lookup: no row, a row without
\* a URL, a row with one
CacheRows == {"absent", "no_url", "url_cached"}

InitLookup ==
    /\ today = 1
    /\ usage_file = NoFile
    /\ disk_ok = TRUE
    /\ tlog = TLogInit
    /\ tincs = 0
    /\ wk = [w \in Workers |-> Idle]
    /\ charged = 0
    /\ overlapped = {}
    /\ ledger = usage_file
    /\ BatchIdle
    /\ cache \in [EmailKeys -> CacheRows]
    /\ lk = NoLookup
    /\ rq = NoRequest
    /\ CascadeIdle
    /\ ProviderIdle
    /\ LeafIdle
    /\ RunIdle

NextLookup == \E env \in LookupEnvs : OrchestrateLookup(env)

SpecLookup == InitLookup /\ [][NextLookup]_vars

\* the calls of a lookup, as a set
Called(l) == {l.calls[i] : i \in 1..Len(l.calls)}

\* the database answered, and the subscriber row held a URL before the lookup
CacheHeldUrl(l) ==
    /\ l.n > 0
    /\ EmailValid[l.env.email] = "True"
    /\ l.env.db = "ok"
    /\ l.before \notin {"absent", "no_url"}

\* C17: when the cache holds a URL for the email, orchestrate_lookup returns
\* success, method_used "database_cache" and exactly the cached URL, and calls
\* neither the classifier, the search cascade, the alternate provider nor the
\* cache update.
C17_CacheHitShortCircuits ==
    CacheHeldUrl(lk) =>
        /\ lk.result.success
        /\ lk.result.method_used = "database_cache"
        /\ lk.result.linkedin_url = lk.before
        /\ Called(lk) \subseteq {"subscriber_exists", "get_linkedin_url"}
        /\ cache[EmailKey(lk.env.email)] = lk.before

\* C17 witness: the URL the first lookup found by search and stored is
\* returned by the second from the cache, whatever the collaborators would do
C17_Witness ==
    /\ lk.n = 2
    /\ lk.before = "url_google"
    /\ lk.env.domain_type = "work" /\ lk.env.cascade = "raise"
    /\ lk.result.method_used = "database_cache"
    /\ lk.result.linkedin_url = "url_google"

\* C18: every result of orchestrate_lookup has success true exactly when its
\* linkedin_url is not None, on every path.
C18_SuccessIffUrl ==
    lk.n > 0 => (lk.result.success <=> lk.result.linkedin_url # null)

\* C18 witness: results of all five paths are reached; here the one where the
\* search cascade raised and the alternate provider found nothing
C18_Witness ==
    /\ lk.n > 0
    /\ EmailValid[lk.env.email] = "True" /\ lk.env.domain_type = "work"
    /\ lk.env.cascade = "raise" /\ lk.env.provider = "none"
    /\ "lookup_by_email" \in Called(lk)
    /\ ~lk.result.success /\ lk.result.linkedin_url = null

\* C19: in every result of a lookup that was not aborted early by an error,
\* method_used is "none" exactly when success is false.
C19_MethodNoneIffFailure ==
    (lk.n > 0 /\ lk.result.error \notin {"invalid_email", "orchestration_error"}) =>
        (lk.result.method_used = "none" <=> ~lk.result.success)

\* how often a lookup made a call
Times(l, call) == Cardinality({i \in 1..Len(l.calls) : l.calls[i] = call})

\* C20: for a work email the search cascade is called first and the alternate
\* provider only if the cascade returned no URL or raised; for a personal or
\* unknown email the cascade is never called and the provider is called
\* directly; the provider is called at most once.
C20_RouteByDomainType ==
    (lk.n > 0 /\ "classify_email" \in Called(lk)) =>
        /\ Times(lk, "lookup_by_email") <= 1
        /\ Times(lk, "find_linkedin_profile") <= 1
        /\ lk.env.domain_type = "work" =>
              /\ "find_linkedin_profile" \in Called(lk)
              /\ "lookup_by_email" \in Called(lk) <=> lk.env.cascade \in {"none", "raise"}
              /\ \A i, j \in 1..Len(lk.calls) :
                    (lk.calls[i] = "find_linkedin_profile" /\ lk.calls[j] = "lookup_by_email")
                        => i < j
        /\ lk.env.domain_type \in {"personal", "unknown"} =>
              /\ "find_linkedin_profile" \notin Called(lk)
              /\ Times(lk, "lookup_by_email") = 1

\* C20 witness: a work email whose cascade raised was found by the provider,
\* and an unknown email went to the provider alone
C20_Witness ==
    /\ lk.n = 2
    /\ lk.env.domain_type = "unknown"
    /\ Called(lk) = {"subscriber_exists", "get_linkedin_url", "classify_email",
                     "lookup_by_email", "update_linkedin_url"}
    /\ lk.result.method_used = "rocketreach_primary"
    /\ lk.result.success

\* the values method_used takes
Methods == {"none", "database_cache", "google_search", "rocketreach_fallback",
            "rocketreach_primary"}

\* C21: every lookup returns a result, whatever its collaborators raise, and a
\* lookup whose error no step handled (an email that is not a string) returns
\* success false, method_used "none", no URL and the error message.
C21_NoExceptionEscapes ==
    lk.n > 0 =>
        /\ lk.result.success \in BOOLEAN
        /\ lk.result.method_used \in Methods
        /\ EmailValid[lk.env.email] = "raise" =>
              /\ ~lk.result.success
              /\ lk.result.method_used = "none"
              /\ lk.result.linkedin_url = null
              /\ lk.result.error # null

\* C21 witness: a lookup of an email that is not a string ended in the
\* orchestration error result
C21_Witness ==
    /\ lk.n > 0
    /\ EmailText[lk.env.email].kind = "other"
    /\ lk.result.error = "orchestration_error"
    /\ lk.calls = <<>>

\* the number of "@" in a text
CountAt(chars) == Cardinality({i \in 1..Len(chars) : chars[i] = "@"})

\* exactly one "@", followed by a domain that holds a dot
WellFormedEmail(e) ==
    /\ EmailText[e].kind = "str"
    /\ CountAt(EmailText[e].chars) = 1
    /\ \E i, j \in 1..Len(EmailText[e].chars) :
          i < j /\ EmailText[e].chars[i] = "@" /\ EmailText[e].chars[j] = "."

\* C22: a lookup of an email that does not hold exactly one "@" followed by a
\* dotted domain is rejected with success false and an error, and makes no
\* call to the cache, the classifier, the cascade or the provider.
C22_MalformedEmailRejected ==
    (lk.n > 0 /\ ~WellFormedEmail(lk.env.email)) =>
        /\ ~lk.result.success
        /\ lk.result.error # null
        /\ lk.calls = <<>>

\* two email arguments that are the same email: equal but for case and
\* surrounding blanks
SameEmail(a, b) == lower(strip(EmailText[a].chars)) = lower(strip(EmailText[b].chars))

\* C23, as amended: after a lookup found a URL through the search cascade or
\* the alternate provider and reported database_updated, the cache holds that
\* URL, and the next lookup of the same email that reads the database returns
\* that URL with method_used "database_cache" and runs neither the cascade nor
\* the provider.
C23_UpdatedUrlServedFromCache ==
    [][(/\ lk'.n = lk.n + 1 /\ lk.n > 0
        /\ lk.result.success /\ lk.result.method_used # "database_cache"
        /\ lk.result.database_updated
        /\ EmailValid[lk'.env.email] = "True" /\ SameEmail(lk'.env.email, lk.env.email)
        /\ lk'.env.db = "ok")
       => /\ cache[EmailKey(lk.env.email)] = lk.result.linkedin_url
          /\ lk'.result.linkedin_url = lk.result.linkedin_url
          /\ lk'.result.method_used = "database_cache"
          /\ "find_linkedin_profile" \notin Called(lk')
          /\ "lookup_by_email" \notin Called(lk')]_vars

\* C23 witness: the URL the provider found for " A@b.co" was stored, and the
\* lookup of "a@b.co" returned it from the cache
C23_Witness ==
    /\ lk.n = 2
    /\ lk.env.email = "e_ok"
    /\ lk.before = "url_rocketreach"
    /\ lk.result.method_used = "database_cache"
    /\ lk.result.linkedin_url = "url_rocketreach"

\* C23 as stated: after a lookup found a URL through the search cascade or the
\* alternate provider, the cache holds that URL for the looked-up email.
C23_FoundUrlIsCached ==
    (lk.n > 0 /\ lk.result.success /\ lk.result.method_used # "database_cache") =>
        cache[EmailKey(lk.env.email)] = lk.result.linkedin_url

(***************************************************************************)
(* The search cascade: one find_linkedin_profile_multi_domain call         *)
(***************************************************************************)
\* await self.google_search(query, domain) inside multi_domain_search
GoogleSearch(outcome) ==
    /\ cs.pc = "search"
    /\ cs' = google_search_step(cs, outcome)
    /\ UNCHANGED <<today, tlog, server_vars, batch_vars, lookup_vars, jd, provider_vars, leaf_vars, run_vars>>

\* await self.query_openai(member_info, linkedin_results)
QueryOpenai(j) ==
    /\ cs.pc = "judge"
    /\ cs' = judge_step(cs, JudgeReplies[j])
    /\ UNCHANGED <<today, tlog, server_vars, batch_vars, lookup_vars, jd, provider_vars, leaf_vars, run_vars>>

\* the call has issued its Phase 1 query and asks the first domain
InitCascade ==
    /\ today = 1
    /\ usage_file = NoFile
    /\ disk_ok = TRUE
    /\ tlog = TLogInit
    /\ tincs = 0
    /\ wk = [w \in Workers |-> Idle]
    /\ charged = 0
    /\ overlapped = {}
    /\ ledger = usage_file
    /\ BatchIdle
    /\ LookupIdle
    /\ \E p \in SearchParams, k \in BOOLEAN :
          cs = start_search([NoCascade EXCEPT !.phase = 1, !.params = p, !.api_key = k],
                            email_query)
    /\ jd = NoJudge
    /\ ProviderIdle
    /\ LeafIdle
    /\ RunIdle

NextCascade ==
    \/ \E outcome \in SearchOutcomes : GoogleSearch(outcome)
    \/ \E j \in JudgeNames : QueryOpenai(j)

SpecCascade == InitCascade /\ [][NextCascade]_vars

\* the Phase 2 variants of a call: its query variations but the email-only one
Phase2Variants(c) == Range(query_variations[c.params]) \ {email_query}

\* C24: the cascade returns the miss (None, None) only in Phase 2, after it has
\* searched every Phase 2 variant, and it returns a URL or the miss, never
\* an error; a Phase 1 without a match is followed by Phase 2.
C24_MissOnlyAfterPhase2 ==
    (cs.pc = "done" /\ cs.ret_url = no_url) =>
        /\ cs.phase = 2
        /\ Phase2Variants(cs) \subseteq Range(cs.issued)
        /\ cs.ret_domain = null

\* C24 witness: Phase 1 found candidates that were rejected, then three
\* Phase 2 variants were searched and the miss was returned
C24_Witness ==
    /\ cs.pc = "done" /\ cs.ret_url = no_url /\ cs.ret_domain = null
    /\ email_query \in Range(cs.judged)
    /\ Len(cs.issued) = 4

\* the last element of a list
Last(v) == v[Len(v)]

\* C25: when the cascade returns a URL, the query that matched is the last
\* query issued (a Phase 1 match leaves the email-only query as the only
\* one), and the domain returned is the domain asked last, whose results held
\* the LinkedIn URL.
C25_StopsAtFirstMatch ==
    (cs.pc = "done" /\ cs.ret_url # no_url) =>
        /\ Last(cs.issued) = Last(cs.judged)
        /\ cs.phase = 1 => cs.issued = <<email_query>>
        /\ cs.last = "linkedin"
        /\ cs.ret_domain = Last(cs.asked)

\* C25 witness: the second Phase 2 variant matched on the third domain while
\* a later variant was still pending
C25_Witness ==
    /\ cs.pc = "done" /\ cs.ret_url # no_url
    /\ cs.phase = 2 /\ Len(cs.issued) = 3 /\ cs.pending # <<>>
    /\ cs.ret_domain = google_domains[3]

\* the place of a query in the order full query, email + first name,
\* email + names + location, site: form; 0 for any other query
VariantRank(q, p) ==
    LET names == IF p.first_name # null /\ p.last_name # null
                 THEN <<p.first_name, p.last_name>>
                 ELSE IF p.first_name # null THEN <<p.first_name>> ELSE <<>>
        location == (IF p.state # null THEN <<p.state>> ELSE <<>>)
                    \o (IF p.country # null THEN <<p.country>> ELSE <<>>)
    IN  IF q = <<"e">> \o names \o location \o <<"LinkedIn">> THEN 1
        ELSE IF p.first_name # null /\ q = <<"e", p.first_name, "LinkedIn">> THEN 2
        ELSE IF p.first_name # null /\ p.last_name # null /\ location # <<>>
                /\ q = <<"e", p.first_name, p.last_name>> \o location \o <<"LinkedIn">> THEN 3
        ELSE IF q = <<"e site:linkedin.com">> THEN 4
        ELSE 0

\* C26: the queries of one lookup are all different, the email-only query is
\* issued once, in Phase 1, and the Phase 2 queries come in the order full
\* query, email + first name, email + names + location, site: form.
C26_VariantOrderNoRepeat ==
    /\ \A i, j \in 1..Len(cs.issued) : i < j => cs.issued[i] # cs.issued[j]
    /\ \A i \in 1..Len(cs.issued) : cs.issued[i] = email_query <=> i = 1
    /\ \A i, j \in 2..Len(cs.issued) :
          /\ VariantRank(cs.issued[i], cs.params) > 0
          /\ i < j => VariantRank(cs.issued[i], cs.params) < VariantRank(cs.issued[j], cs.params)

\* C26 witness: the variations held the email-only query, and Phase 2 issued
\* the full query, the first-name query and the site: query
C26_Witness ==
    /\ cs.pc = "done"
    /\ email_query \in Range(build_query_variations(cs.params))
    /\ Len(cs.issued) = 4
    /\ VariantRank(cs.issued[2], cs.params) = 1
    /\ VariantRank(cs.issued[3], cs.params) = 2
    /\ VariantRank(cs.issued[4], cs.params) = 4

\* C27: within one multi_domain_search the domains are asked in list order,
\* from the first domain in each pass; a call that gave LinkedIn results is the
\* last call of the search, and its results and its domain are what the search
\* returns; a call that raised gave no results and no domain, and the search
\* went on or returned.
C27_StopsAtFirstLinkedInDomain ==
    /\ \A i \in 1..Len(cs.asked) :
          cs.asked[i] = google_domains[((i - 1) % Len(google_domains)) + 1]
    /\ cs.last = "linkedin" =>
          /\ cs.pc \in {"judge", "done"}
          /\ cs.results = "linkedin"
          /\ cs.domain = Last(cs.asked)
    /\ cs.last = "raise" =>
          /\ cs.pc \in {"search", "done"}
          /\ cs.results = "empty" /\ cs.domain = null

\* C27 witness: a search in which a domain raised found LinkedIn results on
\* the third domain and returned them
C27_Witness ==
    /\ cs.pc = "judge" /\ cs.raised
    /\ cs.asked = SubSeq(google_domains, 1, 3)
    /\ cs.results = "linkedin" /\ cs.domain = google_domains[3]

\* C28: within one multi_domain_search no domain is asked twice.
C28_NoDomainAskedTwice ==
    \A i, j \in 1..Len(cs.asked) : i < j => cs.asked[i] # cs.asked[j]

(***************************************************************************)
(* query_openai on its own: any key setting, candidate list and reply      *)
(***************************************************************************)
MaxResults == 3

Judge ==
    /\ ~jd.called
    /\ jd' = [jd EXCEPT !.called = TRUE,
                        !.ret = query_openai(jd.api_key, jd.search_results,
                                             JudgeReplies[jd.reply])]
    /\ UNCHANGED <<today, tlog, server_vars, batch_vars, lookup_vars, cs, provider_vars, leaf_vars, run_vars>>

InitJudge ==
    /\ today = 1
    /\ usage_file = NoFile
    /\ disk_ok = TRUE
    /\ tlog = TLogInit
    /\ tincs = 0
    /\ wk = [w \in Workers |-> Idle]
    /\ charged = 0
    /\ overlapped = {}
    /\ ledger = usage_file
    /\ BatchIdle
    /\ LookupIdle
    /\ cs = NoCascade
    /\ ProviderIdle
    /\ LeafIdle
    /\ RunIdle
    /\ jd \in [api_key : BOOLEAN, search_results : 0..MaxResults, reply : JudgeNames,
                called : {FALSE}, ret : {no_url}]

NextJudge == Judge

SpecJudge == InitJudge /\ [][NextJudge]_vars

\* "linkedin.com/in/"
ProfilePattern ==
    <<"l", "i", "n", "k", "e", "d", "i", "n", ".", "c", "o", "m", "/", "i", "n", "/">>

MaxProviderCalls == 2

TickSeconds == 5

MaxTicks == 2

\* the lookup_by_email calls begun so far, over all processes
TotalCalls == rr["p1"].calls + rr["p2"].calls

\* lookup_by_email up to its choice: _select_available_function reads the
\* history and picks one of the functions that may be called, or the call
\* raises RuntimeError
SelectFunction(p) ==
    /\ rr[p].pc = "idle"
    /\ TotalCalls < MaxProviderCalls
    /\ IF available_functions(call_history, now) = {}
       THEN rr' = [rr EXCEPT ![p] = [pc |-> "idle", function_name |-> null,
                                     outcome |-> "rate_limited", calls |-> @.calls + 1]]
       ELSE \E f \in available_functions(call_history, now) :
               rr' = [rr EXCEPT ![p] = [pc |-> "selected", function_name |-> f,
                                        outcome |-> "none", calls |-> @.calls + 1]]
    /\ UNCHANGED <<today, tlog, server_vars, batch_vars, lookup_vars, cascade_vars,
                   call_history, now, invoked, leaf_vars, run_vars>>

\* the rest of lookup_by_email: the call is recorded in storage and the
\* selected function is called
RecordAndCall(p) ==
    /\ rr[p].pc = "selected"
    /\ call_history' = update_call_history(call_history, rr[p].function_name, now)
    /\ invoked' = [invoked EXCEPT ![rr[p].function_name] = Append(@, now)]
    /\ rr' = [rr EXCEPT ![p] = [@ EXCEPT !.pc = "idle", !.outcome = "called"]]
    /\ UNCHANGED <<today, tlog, server_vars, batch_vars, lookup_vars, cascade_vars, now, leaf_vars, run_vars>>

\* time passes
Tick ==
    /\ now + TickSeconds <= MaxTicks * TickSeconds
    /\ now' = now + TickSeconds
    /\ UNCHANGED <<today, tlog, server_vars, batch_vars, lookup_vars, cascade_vars,
                   call_history, rr, invoked, leaf_vars, run_vars>>

\* the stored history at the start: empty, or one function one call short of
\* its hourly limit, its calls cooldown_seconds apart and the last a minute
\* old, or every function called a moment ago
StartHistories ==
    {[f \in lookup_functions |-> <<>>]}
    \cup {[f \in lookup_functions |->
              IF f = g
              THEN [i \in 1..(max_calls_per_hour - 1) |->
                       0 - 60 - cooldown_seconds * (max_calls_per_hour - 1 - i)]
              ELSE <<>>] :
          g \in {"get_lkd_profile_ichbin"}}
    \cup {[f \in lookup_functions |-> <<0 - TickSeconds>>]}

InitProvider ==
    /\ today = 1
    /\ usage_file = NoFile
    /\ disk_ok = TRUE
    /\ tlog = TLogInit
    /\ tincs = 0
    /\ wk = [w \in Workers |-> Idle]
    /\ charged = 0
    /\ overlapped = {}
    /\ ledger = usage_file
    /\ BatchIdle
    /\ LookupIdle
    /\ CascadeIdle
    /\ call_history \in StartHistories
    /\ now = 0
    /\ rr = [p \in Processes |-> NoProviderCall]
    /\ invoked = call_history
    /\ LeafIdle
    /\ RunIdle

NextProvider ==
    \/ \E p \in Processes : SelectFunction(p)
    \/ \E p \in Processes : RecordAndCall(p)
    \/ Tick

SpecProvider == InitProvider /\ [][NextProvider]_vars

\* C30: no function is called twice within cooldown_seconds, nor more than
\* max_calls_per_hour times within an hour.
C30_ProviderRateLimits ==
    \A f \in lookup_functions :
        /\ \A i, j \in 1..Len(invoked[f]) :
              i < j => invoked[f][j] - invoked[f][i] >= cooldown_seconds
        /\ \A j \in 1..Len(invoked[f]) :
              Cardinality({i \in 1..j : invoked[f][i] > invoked[f][j] - one_hour})
                  <= max_calls_per_hour

(***************************************************************************)
(* One orchestrate_lookup call with its search cascade running step by     *)
(* step: services/orchestrator.py calling services/lookup_processor.py     *)
(* calling GoogleSearch.find_linkedin_profile_multi_domain                 *)
(***************************************************************************)
\* the subscriber row of an email, "absent" for an email that never reaches
\* the database
row_of(email) ==
    IF EmailKey(email) \in EmailKeys THEN cache[EmailKey(email)] ELSE "absent"

\* what the collaborators can do for a lookup with this email, database
\* behaviour and classification
envs_of(email, db, domain_type) ==
    {env \in LookupEnvs :
        env.email = email /\ env.db = db /\ env.domain_type = domain_type}

\* the lookup gets as far as lookup_processor.find_linkedin_profile
reaches_cascade(email, db, domain_type, row) ==
    \E env \in envs_of(email, db, domain_type) :
        "find_linkedin_profile" \in Range(orchestrate_lookup(env, row).calls)

\* a result that reports the last domain that gave search results
google_domain_used_last_searched(env, row, c) ==
    IF EmailValid[env.email] # "True" THEN null
    ELSE IF env.db = "ok" /\ row \notin {"absent", "no_url"} THEN null
    ELSE IF uses_cascade(env.domain_type) /\ env.cascade # "raise" THEN c.domain
    ELSE null

\* the result's google_domain_used: None in the results returned early and on
\* a cache hit; what find_linkedin_profile returned as the domain for a work
\* email; None when it raised and for the other emails
google_domain_used(env, row, c) ==
    IF EmailValid[env.email] # "True" THEN null
    ELSE IF env.db = "ok" /\ row \notin {"absent", "no_url"} THEN null
    ELSE IF uses_cascade(env.domain_type) /\ env.cascade # "raise" THEN c.ret_domain
    ELSE null

\* the search_params of the lookups: those that name no state
RequestParams == {p \in SearchParams : p.state = null}

\* orchestrate_lookup is called, once in a behaviour; a lookup that reaches
\* the search cascade issues its Phase 1 query and asks the first domain
BeginLookup(email, db, domain_type) ==
    /\ rq.pc = "idle"
    /\ lk.n = 0
    /\ envs_of(email, db, domain_type) # {}
    /\ rq' = [pc |-> "running", email |-> email, db |-> db, domain_type |-> domain_type,
              google_domain_used |-> null]
    /\ IF reaches_cascade(email, db, domain_type, row_of(email))
       THEN \E p \in RequestParams, k \in BOOLEAN :
               cs' = start_search([NoCascade EXCEPT !.phase = 1, !.params = p,
                                                    !.api_key = k], email_query)
       ELSE cs' = NoCascade
    /\ UNCHANGED <<today, tlog, server_vars, batch_vars, cache, lk, jd, provider_vars, leaf_vars, run_vars>>

\* the rest of orchestrate_lookup once the cascade, if any, has returned: the
\* alternate provider, the database update, the result
ReturnLookup(env) ==
    /\ rq.pc = "running"
    /\ cs.pc \in {"idle", "done"}
    /\ env.email = rq.email /\ env.db = rq.db /\ env.domain_type = rq.domain_type
    /\ cs.pc = "done" => env.cascade = (IF cs.ret_url # no_url THEN "url" ELSE "none")
    /\ LET key == EmailKey(env.email)
           row == row_of(env.email)
           r == orchestrate_lookup(env, row)
       IN  /\ lk' = [env |-> env, before |-> row, result |-> r.result,
                     calls |-> r.calls, n |-> lk.n + 1]
           /\ cache' = IF key \in EmailKeys THEN [cache EXCEPT ![key] = r.cache]
                       ELSE cache
    /\ rq' = [rq EXCEPT !.pc = "idle",
                       !.google_domain_used =
                           google_domain_used(env, row_of(env.email), cs)]
    /\ UNCHANGED <<today, tlog, server_vars, batch_vars, cascade_vars, provider_vars, leaf_vars, run_vars>>

\* the emails looked up: a valid one, one without "@", None
RequestEmails == {"e_ok", "e_no_at", "e_none"}

\* the database answers or is down
RequestDb == {"ok", "down"}

InitRequest ==
    /\ today = 1
    /\ usage_file = NoFile
    /\ disk_ok = TRUE
    /\ tlog = TLogInit
    /\ tincs = 0
    /\ wk = [w \in Workers |-> Idle]
    /\ charged = 0
    /\ overlapped = {}
    /\ ledger = usage_file
    /\ BatchIdle
    /\ \E row \in CacheRows : cache = [k \in EmailKeys |-> row]
    /\ lk = NoLookup
    /\ rq = NoRequest
    /\ CascadeIdle
    /\ ProviderIdle
    /\ LeafIdle
    /\ RunIdle

NextRequest ==
    \/ \E email \in RequestEmails, db \in RequestDb,
          domain_type \in {"work", "personal", "unknown"} :
          BeginLookup(email, db, domain_type)
    \/ \E outcome \in SearchOutcomes : GoogleSearch(outcome)
    \/ \E j \in JudgeNames : QueryOpenai(j)
    \/ \E env \in LookupEnvs : ReturnLookup(env)

SpecRequest == InitRequest /\ [][NextRequest]_vars

\* where the call is: every step of NextRequest changes it
progress == <<rq.pc, lk.n, cs.pc, Len(cs.issued), Len(cs.asked), Len(cs.judged)>>

\* every awaited call returns (each carries a timeout) and the event loop
\* resumes the coroutine
SpecRequestFair ==
    /\ SpecRequest
    /\ WF_progress(\E outcome \in SearchOutcomes : GoogleSearch(outcome))
    /\ WF_progress(\E j \in JudgeNames : QueryOpenai(j))
    /\ WF_progress(/\ rq.pc = "running" /\ cs.pc \in {"idle", "done"}
                   /\ \E env \in LookupEnvs : ReturnLookup(env))

\* how often a query occurs in a list of queries
Occurrences(v, q) == Cardinality({i \in 1..Len(v) : v[i] = q})

\* the external calls of the lookup so far are within their bounds, and a
\* lookup that returned has returned a typed result
WithinCallBounds ==
    /\ cs.pc # "idle" =>
          /\ Occurrences(cs.issued, email_query) = 1
          /\ Range(cs.issued) \subseteq {email_query} \cup Phase2Variants(cs)
          /\ Range(cs.judged) \subseteq Range(cs.issued)
          /\ \A q \in Range(cs.issued) :
                Occurrences(cs.issued, q) = 1 /\ Occurrences(cs.judged, q) <= 1
    /\ Times(lk, "find_linkedin_profile") <= 1
    /\ Times(lk, "lookup_by_email") <= 1
    /\ lk.n > 0 =>
          /\ lk.result.success \in BOOLEAN
          /\ lk.result.method_used \in Methods
          /\ lk.result.success <=> lk.result.linkedin_url # null

ClassifyEmail ==
    /\ ~cl.called
    /\ cl' = [cl EXCEPT !.called = TRUE, !.ret = classify_email(cl.email)]
    /\ UNCHANGED <<today, tlog, server_vars, batch_vars, lookup_vars, cascade_vars,
                   provider_vars, nx, run_vars>>

InitClassify ==
    /\ today = 1
    /\ usage_file = NoFile
    /\ disk_ok = TRUE
    /\ tlog = TLogInit
    /\ tincs = 0
    /\ wk = [w \in Workers |-> Idle]
    /\ charged = 0
    /\ overlapped = {}
    /\ ledger = usage_file
    /\ BatchIdle
    /\ LookupIdle
    /\ CascadeIdle
    /\ ProviderIdle
    /\ \E email \in ClassifyEmails : cl = [NoClassify EXCEPT !.email = email]
    /\ nx = NoExtract
    /\ RunIdle

NextClassify == ClassifyEmail

SpecClassify == InitClassify /\ [][NextClassify]_vars

\* the email is a string with an "@" in it
HasAt(email) == email.kind = "str" /\ Contains(<<"@">>, email.chars)

\* the rules 1 to 8 for a domain, in order: whether the rule matches, and the
\* outcome it gives
Rules(domain) ==
    <<[matches |-> domain \in personal_domains, outcome |-> "personal"],
      [matches |-> \/ Contains(<<"e", "m", "a", "i", "l">>, domain)
                   \/ (Contains(<<"m", "a", "i", "l">>, domain) /\ ~Contains(<<"g", "m", "a", "i", "l">>, domain)),
       outcome |-> "personal"],
      [matches |-> \E d \in partial_domains(domain) : provider_pattern_search(d),
       outcome |-> "personal"],
      [matches |-> \E provider \in personal_providers : Contains(provider, domain),
       outcome |-> "personal"],
      [matches |-> \E c \in {<<"e", "n", "t", "e", "r", "p", "r", "i", "s", "e", ".", "o", "r", "g">>, <<"b", "u", "s", "i", "n", "e", "s", "s", ".", "o", "r", "g">>,
                            <<"b", "u", "s", "i", "n", "e", "s", "s", ".", "n", "e", "t">>, <<"e", "n", "t", "e", "r", "p", "r", "i", "s", "e", ".", "n", "e", "t">>} :
                      Contains(c, domain),
       outcome |-> "work"],
      [matches |-> EndsWith(domain, <<".", "e", "d", "u">>) \/ Contains(<<".", "e", "d", "u", ".">>, domain),
       outcome |-> "personal"],
      [matches |-> EndsWith(domain, <<".", "g", "o", "v">>) \/ Contains(<<".", "g", "o", "v", ".">>, domain),
       outcome |-> "work"],
      [matches |-> \E tld \in business_tlds : EndsWith(domain, tld), outcome |-> "work"],
      [matches |-> \E tld \in country_tlds, prefix \in business_prefixes :
                      EndsWith(domain, tld) /\ Contains(prefix \o tld, domain),
       outcome |-> "work"],
      [matches |-> TRUE, outcome |-> "personal"]>>

\* the outcome of the first rule that matches
FirstMatch(domain) ==
    LET rules == Rules(domain)
        first == CHOOSE i \in 1..Len(rules) :
                    rules[i].matches /\ \A j \in 1..(i - 1) : ~rules[j].matches
    IN  rules[first].outcome

\* the email holds "@nicolasboucher.online", in any case
IsSpecialCase(email) == Contains(<<"@", "n", "i", "c", "o", "l", "a", "s", "b", "o", "u", "c", "h", "e", "r", ".", "o", "n", "l", "i", "n", "e">>, lower(email.chars))

\* C32: for an email with "@" that does not hold "@nicolasboucher.online",
\* classify returns the outcome of the first matching rule of the rules 1 to 8
\* applied to the lower-cased text after the last "@", and that text as the
\* domain; an email that holds "@nicolasboucher.online" is "work".
C32_FirstMatchingRuleBarSpecialCase ==
    (cl.called /\ HasAt(cl.email)) =>
        /\ cl.ret.domain = domain_of(cl.email.chars)
        /\ ~cl.ret.raised
        /\ cl.ret.domain_type = IF IsSpecialCase(cl.email) THEN "work"
                                ELSE FirstMatch(domain_of(cl.email.chars))

\* C32 witness: a domain that ends in ".com" and holds a provider name was
\* classified personal by rule 4
C32_Witness ==
    /\ cl.called
    /\ cl.email.chars = <<"a", "@", "o", "l", "i", "v", "e", ".", "c", "o", "m">>
    /\ cl.ret.domain_type = "personal"
    /\ ~Rules(cl.ret.domain)[3].matches /\ Rules(cl.ret.domain)[4].matches

\* C32 as stated: for every email with "@", the first matching rule of the
\* rules 1 to 8 decides and nothing else.
C32_FirstMatchingRuleDecides ==
    (cl.called /\ HasAt(cl.email)) =>
        cl.ret.domain_type = FirstMatch(domain_of(cl.email.chars))

\* C35: an email without "@" is classified ("unknown", "") and nothing is
\* raised.
C35_NoAtIsUnknown ==
    (cl.called /\ ~HasAt(cl.email)) =>
        /\ cl.ret.domain_type = "unknown"
        /\ cl.ret.domain = <<>>
        /\ ~cl.ret.raised

\* C35 witness: a text that would be a ".com" domain, without "@", was
\* classified unknown
C35_Witness ==
    /\ cl.called
    /\ cl.email = [kind |-> "str", chars |-> <<"a", "c", "m", "e", ".", "c", "o", "m">>]
    /\ cl.ret.domain_type = "unknown" /\ cl.ret.domain = <<>>

\* ---------------------------------------------------------------------
\* The name extractor alone: extract_name_from_email step by step

\* extract_name_from_email(email, given_name) up to its return or, with an API
\* key, up to the request sent to the service; without a key _call_openai_api
\* returns None at once and the fallback follows
ExtractName(email, given_name) ==
    /\ nx.pc = "idle"
    /\ LET early == before_openai(email, given_name)
           started == [nx EXCEPT !.email = email, !.given_name = given_name]
       IN  IF early.method # "call"
           THEN nx' = [started EXCEPT !.pc = "done", !.ret = early]
           ELSE IF ~nx.api_key
           THEN nx' = [started EXCEPT
                          !.pc = "done",
                          !.calls = <<"_call_openai_api", "_basic_fallback_extraction">>,
                          !.ret = after_openai(email.chars, given_name, none_value)]
           ELSE nx' = [started EXCEPT
                          !.pc = "asked",
                          !.calls = <<"_call_openai_api", "requests.post">>]
    /\ UNCHANGED <<today, tlog, server_vars, batch_vars, lookup_vars, cascade_vars,
                   provider_vars, cl, run_vars>>

\* the service answers, fails or times out; extract_name_from_email returns
OpenaiResponds(outcome) ==
    /\ nx.pc = "asked"
    /\ LET extracted_name == call_openai_api(outcome)
       IN  nx' = [nx EXCEPT
                     !.pc = "done",
                     !.outcome = outcome.kind,
                     !.extracted_name = extracted_name,
                     !.calls = IF truthy(extracted_name) THEN @
                               ELSE Append(@, "_basic_fallback_extraction"),
                     !.ret = after_openai(nx.email.chars, nx.given_name, extracted_name)]
    /\ UNCHANGED <<today, tlog, server_vars, batch_vars, lookup_vars, cascade_vars,
                   provider_vars, cl, run_vars>>

\* a NameExtractor constructed with or without an API key
InitExtract ==
    /\ today = 1
    /\ usage_file = NoFile
    /\ disk_ok = TRUE
    /\ tlog = TLogInit
    /\ tincs = 0
    /\ wk = [w \in Workers |-> Idle]
    /\ charged = 0
    /\ overlapped = {}
    /\ ledger = usage_file
    /\ BatchIdle
    /\ LookupIdle
    /\ CascadeIdle
    /\ ProviderIdle
    /\ RunIdle
    /\ cl = NoClassify
    /\ \E k \in BOOLEAN : nx = [NoExtract EXCEPT !.api_key = k]

NextExtract ==
    \/ \E email \in ExtractEmails, given_name \in GivenNames : ExtractName(email, given_name)
    \/ \E outcome \in OpenaiOutcomes : OpenaiResponds(outcome)

SpecExtract == InitExtract /\ [][NextExtract]_vars

\* what the service returned is a name
ServiceGaveName == truthy(nx.extracted_name)

\* C33: a given name with a space is returned as-is without any external call;
\* otherwise a name produced by a deterministic tier was preceded by a call of
\* the service that errored, timed out or returned no name
C33_ServiceBeforeFallback ==
    nx.pc = "done" =>
        IF is_full_name(nx.given_name)
        THEN nx.ret.name = nx.given_name /\ nx.calls = <<>>
        ELSE (truthy(nx.ret.name) /\ nx.ret.method # "OpenAI extraction")
                 => ("_call_openai_api" \in Range(nx.calls) /\ ~ServiceGaveName)

\* C34: extract_name_from_email returns a (name or None, method) pair and
\* does not raise, whatever the service did; a missing name is None, never an
\* empty string
C34_NeverRaisesNoneForNoName ==
    nx.pc = "done" =>
        /\ ~nx.ret.raised
        /\ nx.ret.name.kind \in {"none", "str"}
        /\ nx.ret.name.kind = "str" => nx.ret.name.chars # <<>>
        /\ nx.ret.method # ""

\* C34 witness: the service timed out or failed, no fallback tier found a name
\* either, and None was returned with a method
C34_Witness ==
    /\ nx.pc = "done"
    /\ nx.outcome = "exception"
    /\ "_basic_fallback_extraction" \in Range(nx.calls)
    /\ nx.ret.name = none_value
    /\ nx.ret.method = "No name detected by OpenAI"

(***************************************************************************)
(* The batch processor: BatchLinkedInProcessor.run over the subscribers    *)
(* table                                                                   *)
(***************************************************************************)
\* the most subscribers in the table
MaxSubs == 4

\* the largest batch_size the processor is constructed with
MaxBatchSize == 2

\* WHERE status = 'active' AND linkedin_profile_url IS NULL
\*   AND (looked_up IS NULL OR looked_up = FALSE)
is_unprocessed(row) == row.status = "active" /\ ~row.linkedin_profile_url /\ ~row.looked_up

\* the ids the WHERE clause selects, ORDER BY id DESC
RECURSIVE unprocessed_desc(_, _)
unprocessed_desc(table, id) ==
    IF id = 0 THEN <<>>
    ELSE (IF is_unprocessed(table[id]) THEN <<id>> ELSE <<>>) \o unprocessed_desc(table, id - 1)

\* DatabaseManager.get_total_unprocessed_count
get_total_unprocessed_count(table) == Len(unprocessed_desc(table, Len(table)))

\* DatabaseManager.get_batch_records: LIMIT batch_size OFFSET offset
get_batch_records(table, batch_size, offset) ==
    LET all == unprocessed_desc(table, Len(table))
        last == IF offset + batch_size < Len(all) THEN offset + batch_size ELSE Len(all)
    IN  SubSeq(all, offset + 1, last)

\* what the lookup API does with one subscriber: a URL found and saved to the
\* subscriber's row, a URL found, none found, the API call failed
ApiOutcomes == {"found_saved", "found", "not_found", "api_call_failed"}

\* run() starts: load_progress of a first run
StartRun ==
    /\ run.pc = "idle"
    /\ run' = [run EXCEPT !.pc = "batch",
                          !.unprocessed_at_start =
                              {id \in 1..Len(subs) : is_unprocessed(subs[id])}]
    /\ UNCHANGED <<today, tlog, server_vars, batch_vars, lookup_vars, cascade_vars,
                   provider_vars, leaf_vars, subs>>

\* process_batch up to its loop: the count, the batch's records; without
\* records the statistics are all zero and run() ends
FetchBatch ==
    /\ run.pc = "batch"
    /\ LET records == get_batch_records(subs, run.batch_size, run.offset)
       IN  run' = [run EXCEPT
                      !.batch_number = @ + 1,
                      !.total_remaining = get_total_unprocessed_count(subs),
                      !.records = records,
                      !.i = 1,
                      !.processed = 0,
                      !.skipped = 0,
                      !.pc = IF records = <<>> THEN "done" ELSE "record",
                      !.ended = IF records = <<>> THEN "no more records" ELSE @]
    /\ UNCHANGED <<today, tlog, server_vars, batch_vars, lookup_vars, cascade_vars,
                   provider_vars, leaf_vars, subs>>

\* process_single_record for the next record of the batch: the API call, then
\* update_looked_up_status, whose failure is logged and ignored
ProcessRecord(api, update_ok) ==
    /\ run.pc = "record"
    /\ run.i <= Len(run.records)
    /\ LET id == run.records[run.i]
           api_success == api # "api_call_failed"
       IN  /\ subs' = [subs EXCEPT
                          ![id].linkedin_profile_url = (@ \/ api = "found_saved"),
                          ![id].looked_up = IF update_ok THEN api_success ELSE @]
           /\ run' = [run EXCEPT
                         !.attempted = @ \cup {id},
                         !.i = @ + 1,
                         !.processed = IF api_success THEN @ + 1 ELSE @,
                         !.skipped = IF api_success THEN @ ELSE @ + 1]
    /\ UNCHANGED <<today, tlog, server_vars, batch_vars, lookup_vars, cascade_vars,
                   provider_vars, leaf_vars>>

\* run() after process_batch returned: the totals, the offset, the end test
FinishBatch ==
    /\ run.pc = "record"
    /\ run.i > Len(run.records)
    /\ LET done == run.total_remaining <= run.processed + run.skipped
       IN  run' = [run EXCEPT
                      !.total_processed = @ + run.processed,
                      !.offset = @ + run.processed + run.skipped,
                      !.pc = IF done THEN "done" ELSE "batch",
                      !.ended = IF done THEN "all records processed" ELSE @]
    /\ UNCHANGED <<today, tlog, server_vars, batch_vars, lookup_vars, cascade_vars,
                   provider_vars, leaf_vars, subs>>

\* the rows of the subscribers table
SubscriberRows ==
    [status : {"active"}, linkedin_profile_url : BOOLEAN, looked_up : BOOLEAN]

InitRun ==
    /\ today = 1
    /\ usage_file = NoFile
    /\ disk_ok = TRUE
    /\ tlog = TLogInit
    /\ tincs = 0
    /\ wk = [w \in Workers |-> Idle]
    /\ charged = 0
    /\ overlapped = {}
    /\ ledger = usage_file
    /\ BatchIdle
    /\ LookupIdle
    /\ CascadeIdle
    /\ ProviderIdle
    /\ LeafIdle
    /\ \E n \in 1..MaxSubs : subs \in [1..n -> SubscriberRows]
    /\ \E batch_size \in 1..MaxBatchSize : run = [NoRun EXCEPT !.batch_size = batch_size]

NextRun ==
    \/ StartRun
    \/ FetchBatch
    \/ \E api \in ApiOutcomes, update_ok \in BOOLEAN : ProcessRecord(api, update_ok)
    \/ FinishBatch

SpecRun == InitRun /\ [][NextRun]_vars

\* C36: when run() has ended, every subscriber that was unprocessed when it
\* started has been passed to the lookup API at least once
C36_EveryUnprocessedAttempted ==
    run.pc = "done" => run.unprocessed_at_start \subseteq run.attempted

\* C37: in the batch scraper every cookie's usage stays at or below its limit,
\* in memory and in the state file, and a scrape goes out only through a cookie
\* whose usage is strictly below its limit when it goes out
C37_UsageWithinLimitDispatchBelow ==
    /\ [](\A c \in cookie_names :
             state.usage[c] <= limits[c] /\ state_file.usage[c] <= limits[c])
    /\ [](bpc = "scraping" => state.usage[current_cookie] < limits[current_cookie])
    /\ [][(bpc = "loop" /\ bpc' = "scraping") =>
             state.usage[current_cookie'] < limits[current_cookie']]_vars

\* C37 witness: a scrape through main took main's last request, main stands at
\* its limit, and the next URL has gone out through backup
C37_Witness ==
    /\ last_scrape.outcome = "success"
    /\ last_scrape.cookie = "main"
    /\ last_scrape.before = limits["main"] - 1
    /\ state.usage["main"] = limits["main"]
    /\ bpc = "scraping"
    /\ current_cookie = "backup"

(***************************************************************************)
(* The tracker on a disk whose writes can fail                             *)
(***************************************************************************)
\* open(self.usage_file, 'w') starts or stops raising (disk full, permissions)
DiskChanges ==
    /\ disk_ok' = ~disk_ok
    /\ UNCHANGED <<today, usage_file, tlog, tincs, wk, charged, overlapped, ledger,
                   batch_vars, lookup_vars, cascade_vars, provider_vars, leaf_vars,
                   run_vars>>

TrackerDiskNext ==
    \/ TrackerNext
    \/ DiskChanges

SpecTrackerDisk == Init /\ [][TrackerDiskNext]_vars

\* C38: a check that follows an increment on the same cookie, with no other
\* increment and no day change in between, reports the remaining count the
\* increment returned, also after a failed save and at or above the limit
C38_IncrementRemainingIsNextCheck ==
    [][(tlog.op = "increment" /\ tlog'.op = "check" /\ tlog'.cookie = tlog.cookie)
          => tlog'.remaining = tlog.remaining]_vars

(***************************************************************************)
(* The candidates passed to query_openai                                   *)
(***************************************************************************)
\* the url of the k-th search result passed as search_results: profile pages
\* and other pages in turn, no URL twice
candidate_url(k) ==
    (IF k % 2 = 1 THEN ProfilePattern ELSE <<"x", ".", "i", "o", "/">>)
    \o <<(<<"a", "b", "c", "d", "e", "f", "g", "h">>)[k]>>

\* the urls of search_results
candidate_urls(search_results) == {candidate_url(k) : k \in 1..search_results}

\* C39: a URL returned by query_openai is the URL of one of the candidates it
\* was given
C39_MatchIsACandidate ==
    (jd.called /\ jd.ret # no_url) => jd.ret \in candidate_urls(jd.search_results)

\* C40: in the result of orchestrate_lookup google_domain_used is set exactly
\* when method_used is "google_search"; it is None for cache hits, results of
\* the alternate provider, misses and errors
C40_DomainIffGoogleSearch ==
    (rq.pc = "idle" /\ lk.n = 1) =>
        (rq.google_domain_used # null <=> lk.result.method_used = "google_search")

\* C40 witness: a lookup whose Phase 2 search found the profile returned it
\* with the domain that gave the results
C40_Witness ==
    /\ rq.pc = "idle" /\ lk.n = 1
    /\ cs.phase = 2
    /\ lk.result.method_used = "google_search"
    /\ rq.google_domain_used \in Range(google_domains)

====
